---- MODULE Spec2Model ----
(***************************************************************************)
(* A model of snapshot/mount_option.go of nydus-snapshotter:               *)
(*   - DmVerityInfo.IsValid and its helpers,                               *)
(*   - KataVirtualVolume.IsValid and the payload validators,               *)
(*   - the base64(JSON) codec of KataVirtualVolume,                        *)
(*   - snapshotter.remoteMountWithExtraOptions.                            *)
(*                                                                         *)
(* Go strings are byte strings: a string is a sequence of bytes (0..255).  *)
(* uint64 values exceed TLC's integers: a uint64 is a sequence of NumLimbs *)
(* limbs in radix LimbBase, least significant limb first.                  *)
(***************************************************************************)
EXTENDS Integers, Sequences, FiniteSets, TLC

\* The nil error.
Nil == "nil"

-----------------------------------------------------------------------------
(* uint64 arithmetic                                                       *)

LimbBase == 256
NumLimbs == 8

\* The uint64 whose value is the natural number n (n < 2^31).
U64(n) ==
    [i \in 1..NumLimbs |-> IF i <= 4 THEN (n \div (LimbBase ^ (i - 1))) % LimbBase ELSE 0]

\* 2^k as a uint64 (k < 64).
U64Pow2(k) ==
    [i \in 1..NumLimbs |-> IF i = (k \div 8) + 1 THEN 2 ^ (k % 8) ELSE 0]

\* uint64(^uint32(0)) = 2^32 - 1 and ^uint64(0) = 2^64 - 1.
MaxUint32 == [i \in 1..NumLimbs |-> IF i <= 4 THEN LimbBase - 1 ELSE 0]
MaxUint64 == [i \in 1..NumLimbs |-> LimbBase - 1]

\* a < b on limb sequences of the same length.
LimbsLess(a, b) ==
    \E i \in 1..Len(a) :
        /\ a[i] < b[i]
        /\ \A j \in (i + 1)..Len(a) : a[j] = b[j]

LimbsZero(a) == \A i \in 1..Len(a) : a[i] = 0

RECURSIVE ColSum(_, _, _, _)
\* The sum of a[i] * b[k + 1 - i] over the limbs i..NumLimbs: column k of a * b.
ColSum(a, b, k, i) ==
    IF i > NumLimbs THEN 0
    ELSE (IF k + 1 - i \in 1..NumLimbs THEN a[i] * b[k + 1 - i] ELSE 0)
         + ColSum(a, b, k, i + 1)

RECURSIVE MulFrom(_, _, _, _)
\* The limbs k..2*NumLimbs of the mathematical product a * b.
MulFrom(a, b, k, carry) ==
    IF k > 2 * NumLimbs THEN << >>
    ELSE LET s == carry + ColSum(a, b, k, 1)
         IN  <<s % LimbBase>> \o MulFrom(a, b, k + 1, s \div LimbBase)

\* The mathematical product of two uint64 values, 2 * NumLimbs limbs.
FullProduct(a, b) == MulFrom(a, b, 1, 0)

\* Go's a * b on uint64: the product modulo 2^64.
U64Mul(a, b) == SubSeq(FullProduct(a, b), 1, NumLimbs)

\* Whether a * b is at least 2^64, so that Go's a * b is not the product.
MulWraps(a, b) ==
    \E i \in (NumLimbs + 1)..(2 * NumLimbs) : FullProduct(a, b)[i] # 0

RECURSIVE SubFrom(_, _, _, _)
\* The limbs i.. of a - b (a >= b), borrow being 0 or 1.
SubFrom(a, b, i, borrow) ==
    IF i > Len(a) THEN << >>
    ELSE LET t == a[i] - b[i] - borrow
         IN  IF t < 0 THEN <<t + LimbBase>> \o SubFrom(a, b, i + 1, 1)
                      ELSE <<t>> \o SubFrom(a, b, i + 1, 0)

RECURSIVE ShlFrom(_, _, _)
\* The limbs i.. of 2 * r + carry, one limb longer than needed never: r has a
\* spare top limb.
ShlFrom(r, i, carry) ==
    IF i > Len(r) THEN << >>
    ELSE LET t == 2 * r[i] + carry
         IN  <<t % LimbBase>> \o ShlFrom(r, i + 1, t \div LimbBase)

\* Bit n (0 = least significant) of a.
BitOf(a, n) == (a[(n \div 8) + 1] \div (2 ^ (n % 8))) % 2

RECURSIVE ModFrom(_, _, _, _)
\* Binary long division: r is the remainder of the bits above n, on
\* NumLimbs + 1 limbs; m is the divisor on NumLimbs + 1 limbs.
ModFrom(a, m, n, r) ==
    IF n < 0 THEN r
    ELSE LET r2 == ShlFrom(r, 1, BitOf(a, n))
             r3 == IF LimbsLess(r2, m) THEN r2 ELSE SubFrom(r2, m, 1, 0)
         IN  IF Len(r3) = Len(m) THEN ModFrom(a, m, n - 1, r3) ELSE r3

\* Go's a % b on uint64, b # 0.
U64Mod(a, b) ==
    SubSeq(ModFrom(a, b \o <<0>>, 8 * NumLimbs - 1, [i \in 1..(NumLimbs + 1) |-> 0]),
           1, NumLimbs)

-----------------------------------------------------------------------------
(* Strings                                                                 *)

\* n copies of the byte b.
Rep(b, n) == [i \in 1..n |-> b]

\* strings.ToLower on the ASCII letters; no other byte or rune lowers to one
\* of the letters of "sha256" or "sha1".
ToLower(s) == [i \in 1..Len(s) |-> IF s[i] \in 65..90 THEN s[i] + 32 ELSE s[i]]

IsHexDigit(b) == b \in (48..57) \cup (97..102) \cup (65..70)

\* hex.DecodeString(s) returns no error.
HexDecodes(s) == Len(s) % 2 = 0 /\ \A i \in 1..Len(s) : IsHexDigit(s[i])

StrSha256 == <<115, 104, 97, 50, 53, 54>>   \* "sha256"
StrSha1 == <<115, 104, 97, 49>>             \* "sha1"

-----------------------------------------------------------------------------
(* DmVerityInfo.IsValid                                                    *)

minBlockSize == 512
maxBlockSize == 524288

\* The errors of DmVerityInfo.IsValid, named by kind:
\*   "Unsupported hash algorithm %s ..."     UnsupportedAlgorithm
\*   "Invalid hash value %s:%s ..."          InvalidHashEncoding
\*   "Zero block count ..."                  InvalidBlockCount
\*   "Unsupported verity block size ..."     InvalidBlockSize
\*   "Invalid hashvalue offset ..."          InvalidOffset
ErrUnsupportedAlgorithm == "UnsupportedAlgorithm"
ErrInvalidHashEncoding == "InvalidHashEncoding"
ErrInvalidBlockCount == "InvalidBlockCount"
ErrInvalidBlockSize == "InvalidBlockSize"
ErrInvalidOffset == "InvalidOffset"

isValidBlockSize_NoMin(blockSize) ==
    ~LimbsLess(U64(maxBlockSize), blockSize)

isValidBlockSize(blockSize) ==
    /\ ~LimbsLess(blockSize, U64(minBlockSize))
    /\ ~LimbsLess(U64(maxBlockSize), blockSize)

isValidHash(d, expectedLen) ==
    IF Len(d.Hash) # expectedLen \/ ~HexDecodes(d.Hash)
    THEN ErrInvalidHashEncoding
    ELSE Nil

validateHashType(d) ==
    LET t == ToLower(d.HashType)
    IN  IF t = StrSha256 THEN isValidHash(d, 64)
        ELSE IF t = StrSha1 THEN isValidHash(d, 40)
        ELSE ErrUnsupportedAlgorithm

blockNumInvalid_NoUpper(d) ==
    LimbsZero(d.BlockNum)

\* d.BlockNum == 0 || d.BlockNum > uint64(^uint32(0))
blockNumInvalid(d) ==
    LimbsZero(d.BlockNum) \/ LimbsLess(MaxUint32, d.BlockNum)

\* d.Offset%d.Hashsize != 0 || d.Offset < d.Blocksize*d.BlockNum
offsetInvalid(d) ==
    \/ ~LimbsZero(U64Mod(d.Offset, d.Hashsize))
    \/ LimbsLess(d.Offset, U64Mul(d.Blocksize, d.BlockNum))

\* A run of IsValid is at one of its four checks, or has returned its error
\* (Nil for none), or has panicked (an integer division by zero).
VStages == {"hashType", "blockNum", "blockSize", "offset"}

VAt(stage) == [stage |-> stage, err |-> Nil]
VReturn(err) == [stage |-> "returned", err |-> err]
VPanic == [stage |-> "panicked", err |-> Nil]

VerityStep_SizeBeforeCount(stage, d) ==
    CASE stage = "hashType" ->
           IF validateHashType(d) # Nil THEN VReturn(validateHashType(d))
           ELSE VAt("blockSize")
      [] stage = "blockSize" ->
           IF ~isValidBlockSize(d.Blocksize) \/ ~isValidBlockSize(d.Hashsize)
           THEN VReturn(ErrInvalidBlockSize) ELSE VAt("blockNum")
      [] stage = "blockNum" ->
           IF blockNumInvalid(d) THEN VReturn(ErrInvalidBlockCount) ELSE VAt("offset")
      [] stage = "offset" ->
           IF LimbsZero(d.Hashsize) THEN VPanic
           ELSE IF offsetInvalid(d) THEN VReturn(ErrInvalidOffset) ELSE VReturn(Nil)

\* One check of IsValid, in the order of the code.
VerityStep(stage, d) ==
    CASE stage = "hashType" ->
           IF validateHashType(d) # Nil THEN VReturn(validateHashType(d))
           ELSE VAt("blockNum")
      [] stage = "blockNum" ->
           IF blockNumInvalid(d) THEN VReturn(ErrInvalidBlockCount) ELSE VAt("blockSize")
      [] stage = "blockSize" ->
           IF ~isValidBlockSize(d.Blocksize) \/ ~isValidBlockSize(d.Hashsize)
           THEN VReturn(ErrInvalidBlockSize) ELSE VAt("offset")
      [] stage = "offset" ->
           IF LimbsZero(d.Hashsize) THEN VPanic
           ELSE IF offsetInvalid(d) THEN VReturn(ErrInvalidOffset) ELSE VReturn(Nil)

RECURSIVE VerityRun(_, _)
VerityRun(st, d) ==
    IF st.stage \in VStages THEN VerityRun(VerityStep(st.stage, d), d) ELSE st

\* The outcome of d.IsValid().
DmVerityIsValid(d) == VerityRun(VAt("hashType"), d)

-----------------------------------------------------------------------------
(* KataVirtualVolume and its payloads                                      *)

\* A pointer is a sequence of length 0 (nil) or 1 (the value pointed to).
NilPtr == << >>
Ptr(x) == <<x>>

\* A map[string]string is nil or a sequence of <<key, value>> pairs, keys
\* distinct and ascending.  A []string is nil or a sequence of strings.
NilMap == [isNil |-> TRUE, pairs |-> << >>]
Map(pairs) == [isNil |-> FALSE, pairs |-> pairs]
NilSlice == [isNil |-> TRUE, elems |-> << >>]
Slice(elems) == [isNil |-> FALSE, elems |-> elems]

KataVirtualVolumeDirectBlockType ==
    <<100, 105, 114, 101, 99, 116, 95, 98, 108, 111, 99, 107>>
    \* "direct_block"
KataVirtualVolumeImageRawBlockType ==
    <<105, 109, 97, 103, 101, 95, 114, 97, 119, 95, 98, 108, 111, 99, 107>>
    \* "image_raw_block"
KataVirtualVolumeLayerRawBlockType ==
    <<108, 97, 121, 101, 114, 95, 114, 97, 119, 95, 98, 108, 111, 99, 107>>
    \* "layer_raw_block"
KataVirtualVolumeImageNydusBlockType ==
    <<105, 109, 97, 103, 101, 95, 110, 121, 100, 117, 115, 95, 98, 108, 111, 99, 107>>
    \* "image_nydus_block"
KataVirtualVolumeLayerNydusBlockType ==
    <<108, 97, 121, 101, 114, 95, 110, 121, 100, 117, 115, 95, 98, 108, 111, 99, 107>>
    \* "layer_nydus_block"
KataVirtualVolumeImageNydusFsType ==
    <<105, 109, 97, 103, 101, 95, 110, 121, 100, 117, 115, 95, 102, 115>>
    \* "image_nydus_fs"
KataVirtualVolumeLayerNydusFsType ==
    <<108, 97, 121, 101, 114, 95, 110, 121, 100, 117, 115, 95, 102, 115>>
    \* "layer_nydus_fs"
KataVirtualVolumeImageGuestPullType ==
    <<105, 109, 97, 103, 101, 95, 103, 117, 101, 115, 116, 95, 112, 117, 108, 108>>
    \* "image_guest_pull"

DirectAssignedVolumeIsValid_Always(dv) == TRUE

\* func (d *DirectAssignedVolume) IsValid() bool
DirectAssignedVolumeIsValid(dv) == ~dv.Metadata.isNil

\* func (i *ImagePullVolume) IsValid() bool
ImagePullVolumeIsValid(ip) == ~ip.Metadata.isNil

\* func (n *NydusImageVolume) IsValid() bool
NydusImageVolumeIsValid(n) == Len(n.Config) > 0 \/ Len(n.SnapshotDir) > 0

KataVirtualVolumeIsValid_WrongPayload(k) ==
    CASE k.VolumeType = KataVirtualVolumeDirectBlockType ->
           /\ k.Source # << >>
           /\ k.DirectVolume # NilPtr
           /\ DirectAssignedVolumeIsValid(k.DirectVolume[1])
      [] k.VolumeType \in {KataVirtualVolumeImageRawBlockType,
                           KataVirtualVolumeLayerRawBlockType} ->
           /\ k.Source # << >>
           /\ (k.DmVerity = NilPtr \/ DmVerityIsValid(k.DmVerity[1]) = VReturn(Nil))
      [] k.VolumeType \in {KataVirtualVolumeImageNydusBlockType,
                           KataVirtualVolumeLayerNydusBlockType,
                           KataVirtualVolumeImageNydusFsType,
                           KataVirtualVolumeLayerNydusFsType} ->
           /\ k.Source # << >>
           /\ k.NydusImage # NilPtr
           /\ NydusImageVolumeIsValid(k.NydusImage[1])
      [] k.VolumeType = KataVirtualVolumeImageGuestPullType ->
           /\ k.Source # << >>
           /\ k.DirectVolume # NilPtr
           /\ DirectAssignedVolumeIsValid(k.DirectVolume[1])
      [] OTHER -> FALSE

\* func (k *KataVirtualVolume) IsValid() bool
KataVirtualVolumeIsValid(k) ==
    CASE k.VolumeType = KataVirtualVolumeDirectBlockType ->
           /\ k.Source # << >>
           /\ k.DirectVolume # NilPtr
           /\ DirectAssignedVolumeIsValid(k.DirectVolume[1])
      [] k.VolumeType \in {KataVirtualVolumeImageRawBlockType,
                           KataVirtualVolumeLayerRawBlockType} ->
           /\ k.Source # << >>
           /\ (k.DmVerity = NilPtr \/ DmVerityIsValid(k.DmVerity[1]) = VReturn(Nil))
      [] k.VolumeType \in {KataVirtualVolumeImageNydusBlockType,
                           KataVirtualVolumeLayerNydusBlockType,
                           KataVirtualVolumeImageNydusFsType,
                           KataVirtualVolumeLayerNydusFsType} ->
           /\ k.Source # << >>
           /\ k.NydusImage # NilPtr
           /\ NydusImageVolumeIsValid(k.NydusImage[1])
      [] k.VolumeType = KataVirtualVolumeImageGuestPullType ->
           /\ k.Source # << >>
           /\ k.ImagePull # NilPtr
           /\ ImagePullVolumeIsValid(k.ImagePull[1])
      [] OTHER -> FALSE

-----------------------------------------------------------------------------
(* encoding/base64, StdEncoding                                            *)

PadChar == 61   \* '='

\* The character of the 6-bit value v in the standard alphabet.
B64Char(v) ==
    IF v < 26 THEN 65 + v
    ELSE IF v < 52 THEN 97 + (v - 26)
    ELSE IF v < 62 THEN 48 + (v - 52)
    ELSE IF v = 62 THEN 43 ELSE 47

IsB64Char(c) == c \in (65..90) \cup (97..122) \cup (48..57) \cup {43, 47}

\* The 6-bit value of a character of the standard alphabet.
B64Value(c) ==
    IF c \in 65..90 THEN c - 65
    ELSE IF c \in 97..122 THEN c - 97 + 26
    ELSE IF c \in 48..57 THEN c - 48 + 52
    ELSE IF c = 43 THEN 62 ELSE 63

\* The encoding without its padding, as base64.RawStdEncoding writes it.
B64EncodeToString_NoPadding(src) ==
    LET n == Len(src)
        At(i) == IF i <= n THEN src[i] ELSE 0
        Quantum(g) == At(3 * g + 1) * 65536 + At(3 * g + 2) * 256 + At(3 * g + 3)
    IN  [i \in 1..(4 * (n \div 3) + (IF n % 3 = 0 THEN 0 ELSE (n % 3) + 1)) |->
            LET g == (i - 1) \div 4
                p == (i - 1) % 4
            IN  CASE p = 0 -> B64Char((Quantum(g) \div 262144) % 64)
                  [] p = 1 -> B64Char((Quantum(g) \div 4096) % 64)
                  [] p = 2 -> B64Char((Quantum(g) \div 64) % 64)
                  [] p = 3 -> B64Char(Quantum(g) % 64)]

\* base64.StdEncoding.EncodeToString(src)
B64EncodeToString(src) ==
    LET n == Len(src)
        At(i) == IF i <= n THEN src[i] ELSE 0
        Quantum(g) == At(3 * g + 1) * 65536 + At(3 * g + 2) * 256 + At(3 * g + 3)
    IN  [i \in 1..(4 * ((n + 2) \div 3)) |->
            LET g == (i - 1) \div 4
                p == (i - 1) % 4
            IN  CASE p = 0 -> B64Char((Quantum(g) \div 262144) % 64)
                  [] p = 1 -> B64Char((Quantum(g) \div 4096) % 64)
                  [] p = 2 -> IF 3 * g + 2 > n THEN PadChar
                              ELSE B64Char((Quantum(g) \div 64) % 64)
                  [] p = 3 -> IF 3 * g + 3 > n THEN PadChar
                              ELSE B64Char(Quantum(g) % 64)]

NotNewline(c) == c \notin {10, 13}

\* The decoder ignores '\r' and '\n'; of the rest, every quantum holds four
\* characters of the alphabet, but the last may end in "=" or "==".
B64Wellformed(t) ==
    /\ Len(t) % 4 = 0
    /\ \A i \in 1..Len(t) :
          \/ IsB64Char(t[i])
          \/ /\ t[i] = PadChar
             /\ \/ i = Len(t)
                \/ i = Len(t) - 1 /\ t[Len(t)] = PadChar

B64Payload(t) ==
    LET pad == IF Len(t) = 0 THEN 0
               ELSE IF t[Len(t) - 1] = PadChar THEN 2
               ELSE IF t[Len(t)] = PadChar THEN 1 ELSE 0
        V(i) == IF t[i] = PadChar THEN 0 ELSE B64Value(t[i])
        Quantum(g) == V(4 * g + 1) * 262144 + V(4 * g + 2) * 4096
                      + V(4 * g + 3) * 64 + V(4 * g + 4)
    IN  [i \in 1..(3 * (Len(t) \div 4) - pad) |->
            LET g == (i - 1) \div 3
                p == (i - 1) % 3
            IN  CASE p = 0 -> (Quantum(g) \div 65536) % 256
                  [] p = 1 -> (Quantum(g) \div 256) % 256
                  [] p = 2 -> Quantum(g) % 256]

\* base64.StdEncoding.DecodeString(s): the bytes, or an error.
B64DecodeString(s) ==
    LET t == SelectSeq(s, NotNewline)
    IN  IF B64Wellformed(t) THEN [err |-> FALSE, bytes |-> B64Payload(t)]
        ELSE [err |-> TRUE, bytes |-> << >>]

-----------------------------------------------------------------------------
(* unicode/utf8                                                            *)

IsCont(s, i) == i <= Len(s) /\ s[i] \in 128..191

\* The size of the UTF-8 encoding that starts at s[i]; 0 when the bytes there
\* are not a valid encoding (utf8.DecodeRune returns RuneError, 1).
RuneSize(s, i) ==
    LET b == s[i]
        InRange(j, lo, hi) == j <= Len(s) /\ s[j] \in lo..hi
    IN  IF b < 128 THEN 1
        ELSE IF b \in 194..223 THEN (IF IsCont(s, i + 1) THEN 2 ELSE 0)
        ELSE IF b \in 224..239 THEN
            (IF /\ InRange(i + 1, IF b = 224 THEN 160 ELSE 128,
                                  IF b = 237 THEN 159 ELSE 191)
                /\ IsCont(s, i + 2)
             THEN 3 ELSE 0)
        ELSE IF b \in 240..244 THEN
            (IF /\ InRange(i + 1, IF b = 240 THEN 144 ELSE 128,
                                  IF b = 244 THEN 143 ELSE 191)
                /\ IsCont(s, i + 2)
                /\ IsCont(s, i + 3)
             THEN 4 ELSE 0)
        ELSE 0

\* U+FFFD, the replacement rune, in UTF-8.
RuneErrorBytes == <<239, 191, 189>>

\* The UTF-8 encoding of the code point r (no surrogate).
EncodeRune(r) ==
    IF r < 128 THEN <<r>>
    ELSE IF r < 2048 THEN <<192 + (r \div 64), 128 + (r % 64)>>
    ELSE IF r < 65536 THEN
        <<224 + (r \div 4096), 128 + ((r \div 64) % 64), 128 + (r % 64)>>
    ELSE <<240 + (r \div 262144), 128 + ((r \div 4096) % 64),
           128 + ((r \div 64) % 64), 128 + (r % 64)>>

-----------------------------------------------------------------------------
(* encoding/json: Marshal                                                  *)

\* The lower-case hex digit of v (0..15).
HexChar(v) == IF v < 10 THEN 48 + v ELSE 87 + v

\* \u00XX for the byte b.
EscapeU00(b) == <<92, 117, 48, 48, HexChar(b \div 16), HexChar(b % 16)>>

\* What Marshal writes for the rune that starts at s[i]: ASCII as it is,
\* but '"' and '\' behind a backslash, '\n', '\r', '\t' by their short
\* escapes, the other control characters and '<', '>', '&' as \u00XX; a
\* byte that starts no valid encoding as the six characters of the
\* escape of U+FFFD; U+2028 and U+2029 as their escapes; every other rune by its bytes.
EncodeRuneAt(s, i) ==
    LET b == s[i]
        n == RuneSize(s, i)
    IN  IF b < 128 THEN
            CASE b = 34 -> <<92, 34>>
              [] b = 92 -> <<92, 92>>
              [] b = 10 -> <<92, 110>>
              [] b = 13 -> <<92, 114>>
              [] b = 9 -> <<92, 116>>
              [] b < 32 \/ b \in {60, 62, 38} -> EscapeU00(b)
              [] OTHER -> <<b>>
        ELSE IF n = 0 THEN <<92, 117, 102, 102, 102, 100>>
        ELSE IF n = 3 /\ b = 226 /\ s[i + 1] = 128 /\ s[i + 2] \in {168, 169}
             THEN <<92, 117, 50, 48, 50, HexChar(s[i + 2] - 160)>>
        ELSE SubSeq(s, i, i + n - 1)

\* The bytes of a rune after its first are written with the first.
EncStep(st, s, i) ==
    IF st.skip > 0 THEN [st EXCEPT !.skip = st.skip - 1]
    ELSE [out |-> st.out \o EncodeRuneAt(s, i),
          skip |-> IF RuneSize(s, i) = 0 THEN 0 ELSE RuneSize(s, i) - 1]

RECURSIVE EncFold(_, _, _, _)
\* EncStep over s[lo..hi], in order.
EncFold(s, lo, hi, st) ==
    IF st.skip < 0 \/ lo > hi THEN st
    ELSE IF lo = hi THEN EncStep(st, s, lo)
    ELSE EncFold(s, ((lo + hi) \div 2) + 1, hi, EncFold(s, lo, (lo + hi) \div 2, st))

\* A Go string as a JSON string.
JString(s) ==
    <<34>> \o EncFold(s, 1, Len(s), [out |-> << >>, skip |-> 0]).out \o <<34>>

RECURSIVE DivSmallFrom(_, _, _, _)
\* a \div m and a % m for a small m, from limb i downwards, r the remainder
\* of the limbs above: <<the limbs 1..i of the quotient, the remainder>>.
DivSmallFrom(a, m, i, r) ==
    IF i = 0 THEN << << >>, r >>
    ELSE LET t == r * LimbBase + a[i]
             rest == DivSmallFrom(a, m, i - 1, t % m)
         IN  <<Append(rest[1], t \div m), rest[2]>>

RECURSIVE DecimalOf(_)
\* strconv's decimal of a uint64.
DecimalOf(a) ==
    LET qr == DivSmallFrom(a, 10, NumLimbs, 0)
    IN  IF LimbsZero(qr[1]) THEN <<48 + qr[2]>>
        ELSE DecimalOf(qr[1]) \o <<48 + qr[2]>>

-----------------------------------------------------------------------------
(* encoding/json: the syntax of a JSON text                                *)

\* A JSON value is [t, s, kids]: t its kind ("null", "true", "false", "num",
\* "str", "arr", "obj"), s the bytes of a string or the literal of a number,
\* kids the elements of an array or the members [k, v] of an object, in the
\* order of the text.
JValue(t, s, kids) == [t |-> t, s |-> s, kids |-> kids]

IsSpace(b) == b \in {32, 9, 13, 10}
IsDigit(b) == b \in 48..57
HexValue(b) == IF b \in 48..57 THEN b - 48 ELSE IF b \in 97..102 THEN b - 87 ELSE b - 55

\* The scanner reads the text a byte at a time.  Its state: mode, what it
\* expects; stack, the arrays and objects it is inside of; buf, the bytes of
\* the string, number or literal it is in; strIsKey, whether that string is
\* a member's key; u, n and hi, the value and digit count of a \u escape and
\* a surrogate waiting for its pair; skip, the bytes of a rune already
\* copied; val, the top-level value once done; err, a syntax error.
ScanInit ==
    [mode |-> "val", stack |-> << >>, buf |-> << >>, strIsKey |-> FALSE,
     lit |-> "null", u |-> 0, n |-> 0, hi |-> 0, skip |-> 0,
     val |-> JValue("null", << >>, << >>), done |-> FALSE, err |-> FALSE]

ScanFail(st) == [st EXCEPT !.err = TRUE]

\* The value v is complete: it is the text's value, or an element or a
\* member of the innermost array or object.
ScanComplete(st, v) ==
    IF st.stack = << >>
    THEN [st EXCEPT !.val = v, !.done = TRUE, !.mode = "after", !.buf = << >>]
    ELSE LET top == st.stack[Len(st.stack)]
             kid == IF top.t = "arr" THEN v ELSE [k |-> top.key, v |-> v]
         IN  [st EXCEPT !.stack[Len(st.stack)].kids = Append(top.kids, kid),
                        !.mode = "after", !.buf = << >>]

ScanPush(st, t, mode) ==
    [st EXCEPT !.stack = Append(st.stack, [t |-> t, kids |-> << >>, key |-> << >>]),
               !.mode = mode]

\* A closing bracket: the innermost array or object is complete.
ScanPop(st) ==
    LET top == st.stack[Len(st.stack)]
    IN  ScanComplete([st EXCEPT !.stack = SubSeq(st.stack, 1, Len(st.stack) - 1)],
                     JValue(top.t, << >>, top.kids))

\* After a value: a comma, the closing bracket, or the end of the text.
ScanAfter(st, b) ==
    IF IsSpace(b) THEN st
    ELSE IF st.stack = << >> THEN ScanFail(st)
    ELSE IF st.stack[Len(st.stack)].t = "arr" THEN
        (IF b = 44 THEN [st EXCEPT !.mode = "val"]
         ELSE IF b = 93 THEN ScanPop(st) ELSE ScanFail(st))
    ELSE (IF b = 44 THEN [st EXCEPT !.mode = "key"]
          ELSE IF b = 125 THEN ScanPop(st) ELSE ScanFail(st))

ScanStartString(st, isKey) ==
    [st EXCEPT !.mode = "str", !.buf = << >>, !.strIsKey = isKey, !.hi = 0]

ScanStartLiteral(st, lit, rest) ==
    [st EXCEPT !.mode = "lit", !.lit = lit, !.buf = rest]

\* The first byte of a value.
ScanStartValue(st, b) ==
    CASE b = 123 -> ScanPush(st, "obj", "obj0")
      [] b = 91 -> ScanPush(st, "arr", "arr0")
      [] b = 34 -> ScanStartString(st, FALSE)
      [] b = 45 -> [st EXCEPT !.mode = "neg", !.buf = <<b>>]
      [] b = 48 -> [st EXCEPT !.mode = "zero", !.buf = <<b>>]
      [] b \in 49..57 -> [st EXCEPT !.mode = "int", !.buf = <<b>>]
      [] b = 116 -> ScanStartLiteral(st, "true", <<114, 117, 101>>)
      [] b = 102 -> ScanStartLiteral(st, "false", <<97, 108, 115, 101>>)
      [] b = 110 -> ScanStartLiteral(st, "null", <<117, 108, 108>>)
      [] OTHER -> ScanFail(st)

\* A surrogate that found no pair is the replacement rune.
ScanFlushSurrogate(st) ==
    IF st.hi = 0 THEN st
    ELSE [st EXCEPT !.hi = 0, !.buf = st.buf \o RuneErrorBytes]

ScanAppend(st, bytes) == [st EXCEPT !.buf = st.buf \o bytes, !.mode = "str"]

\* The string's closing quote.
ScanEndString(st) ==
    IF st.strIsKey
    THEN [st EXCEPT !.stack[Len(st.stack)].key = st.buf, !.mode = "colon",
                    !.buf = << >>]
    ELSE ScanComplete(st, JValue("str", st.buf, << >>))

\* A byte inside a string.
ScanString(st0, s, i) ==
    LET b == s[i]
        st == IF b = 92 THEN st0 ELSE ScanFlushSurrogate(st0)
    IN  CASE b = 34 -> ScanEndString(st)
          [] b = 92 -> [st EXCEPT !.mode = "esc"]
          [] b < 32 -> ScanFail(st)
          [] b \in 32..127 /\ b \notin {34, 92} -> ScanAppend(st, <<b>>)
          [] OTHER ->
               IF RuneSize(s, i) = 0 THEN ScanAppend(st, RuneErrorBytes)
               ELSE [st EXCEPT !.buf = st.buf \o SubSeq(s, i, i + RuneSize(s, i) - 1),
                               !.skip = RuneSize(s, i) - 1]

\* The byte after a backslash.
ScanEscape(st0, b) ==
    LET st == IF b = 117 THEN st0 ELSE ScanFlushSurrogate(st0)
    IN  CASE b \in {34, 92, 47} -> ScanAppend(st, <<b>>)
          [] b = 98 -> ScanAppend(st, <<8>>)
          [] b = 102 -> ScanAppend(st, <<12>>)
          [] b = 110 -> ScanAppend(st, <<10>>)
          [] b = 114 -> ScanAppend(st, <<13>>)
          [] b = 116 -> ScanAppend(st, <<9>>)
          [] b = 117 -> [st EXCEPT !.mode = "u", !.u = 0, !.n = 0]
          [] OTHER -> ScanFail(st)

IsSurrogate(r) == r \in 55296..57343

\* The rune r of a \u escape with no surrogate waiting.
ScanRune(st, r) ==
    IF IsSurrogate(r) THEN [st EXCEPT !.hi = r, !.mode = "str"]
    ELSE ScanAppend(st, EncodeRune(r))

\* The rune r of a complete \u escape.
ScanEscapedRune(st, r) ==
    IF st.hi \in 55296..56319 /\ r \in 56320..57343
    THEN ScanAppend([st EXCEPT !.hi = 0],
                    EncodeRune(65536 + (st.hi - 55296) * 1024 + (r - 56320)))
    ELSE ScanRune(ScanFlushSurrogate(st), r)

\* A hex digit of a \u escape.
ScanHex(st, b) ==
    IF ~IsHexDigit(b) THEN ScanFail(st)
    ELSE IF st.n = 3 THEN ScanEscapedRune(st, st.u * 16 + HexValue(b))
    ELSE [st EXCEPT !.u = st.u * 16 + HexValue(b), !.n = st.n + 1]

NumberModes == {"neg", "zero", "int", "dot", "frac", "e", "esign", "exp"}
NumberEndModes == {"zero", "int", "frac", "exp"}

\* A byte inside, or right after, a number.
ScanNumber(st, b) ==
    LET Go(mode) == [st EXCEPT !.mode = mode, !.buf = Append(st.buf, b)]
        End == ScanAfter(ScanComplete(st, JValue("num", st.buf, << >>)), b)
    IN  CASE st.mode = "neg" ->
               IF b = 48 THEN Go("zero")
               ELSE IF b \in 49..57 THEN Go("int") ELSE ScanFail(st)
          [] st.mode = "zero" ->
               IF b = 46 THEN Go("dot")
               ELSE IF b \in {101, 69} THEN Go("e") ELSE End
          [] st.mode = "int" ->
               IF IsDigit(b) THEN Go("int")
               ELSE IF b = 46 THEN Go("dot")
               ELSE IF b \in {101, 69} THEN Go("e") ELSE End
          [] st.mode = "dot" ->
               IF IsDigit(b) THEN Go("frac") ELSE ScanFail(st)
          [] st.mode = "frac" ->
               IF IsDigit(b) THEN Go("frac")
               ELSE IF b \in {101, 69} THEN Go("e") ELSE End
          [] st.mode = "e" ->
               IF b \in {43, 45} THEN Go("esign")
               ELSE IF IsDigit(b) THEN Go("exp") ELSE ScanFail(st)
          [] st.mode = "esign" ->
               IF IsDigit(b) THEN Go("exp") ELSE ScanFail(st)
          [] st.mode = "exp" ->
               IF IsDigit(b) THEN Go("exp") ELSE End

\* The scanner's step on the byte s[i].
ScanStep(st, s, i) ==
    LET b == s[i]
    IN  IF st.err THEN st
        ELSE IF st.skip > 0 THEN [st EXCEPT !.skip = st.skip - 1]
        ELSE CASE st.mode = "val" ->
                    IF IsSpace(b) THEN st ELSE ScanStartValue(st, b)
               [] st.mode = "arr0" ->
                    IF IsSpace(b) THEN st
                    ELSE IF b = 93 THEN ScanPop(st) ELSE ScanStartValue(st, b)
               [] st.mode = "obj0" ->
                    IF IsSpace(b) THEN st
                    ELSE IF b = 125 THEN ScanPop(st)
                    ELSE IF b = 34 THEN ScanStartString(st, TRUE) ELSE ScanFail(st)
               [] st.mode = "key" ->
                    IF IsSpace(b) THEN st
                    ELSE IF b = 34 THEN ScanStartString(st, TRUE) ELSE ScanFail(st)
               [] st.mode = "colon" ->
                    IF IsSpace(b) THEN st
                    ELSE IF b = 58 THEN [st EXCEPT !.mode = "val"] ELSE ScanFail(st)
               [] st.mode = "after" -> ScanAfter(st, b)
               [] st.mode = "lit" ->
                    IF b # st.buf[1] THEN ScanFail(st)
                    ELSE IF Len(st.buf) = 1
                         THEN ScanComplete(st, JValue(st.lit, << >>, << >>))
                    ELSE [st EXCEPT !.buf = Tail(st.buf)]
               [] st.mode = "str" -> ScanString(st, s, i)
               [] st.mode = "esc" -> ScanEscape(st, b)
               [] st.mode = "u" -> ScanHex(st, b)
               [] st.mode \in NumberModes -> ScanNumber(st, b)

RECURSIVE ScanFold(_, _, _, _)
\* ScanStep over s[lo..hi], in order.
ScanFold(s, lo, hi, st) ==
    IF st.err \/ lo > hi THEN st
    ELSE IF lo = hi THEN ScanStep(st, s, lo)
    ELSE ScanFold(s, ((lo + hi) \div 2) + 1, hi, ScanFold(s, lo, (lo + hi) \div 2, st))

\* The value of the JSON text s, or a syntax error.
JParse(s) ==
    LET st == ScanFold(s, 1, Len(s), ScanInit)
    IN  IF st.err THEN [err |-> TRUE, val |-> ScanInit.val]
        ELSE IF st.stack = << >> /\ st.mode \in NumberEndModes
             THEN [err |-> FALSE, val |-> JValue("num", st.buf, << >>)]
        ELSE IF st.stack = << >> /\ st.mode = "after" /\ st.done
             THEN [err |-> FALSE, val |-> st.val]
        ELSE [err |-> TRUE, val |-> ScanInit.val]

-----------------------------------------------------------------------------
(* The structs and their JSON tags                                         *)

TagVolumeType == <<118, 111, 108, 117, 109, 101, 95, 116, 121, 112, 101>>
    \* "volume_type"
TagSource == <<115, 111, 117, 114, 99, 101>>
    \* "source"
TagFsType == <<102, 115, 95, 116, 121, 112, 101>>
    \* "fs_type"
TagOptions == <<111, 112, 116, 105, 111, 110, 115>>
    \* "options"
TagDirectVolume == <<100, 105, 114, 101, 99, 116, 95, 118, 111, 108, 117, 109, 101>>
    \* "direct_volume"
TagImagePull == <<105, 109, 97, 103, 101, 95, 112, 117, 108, 108>>
    \* "image_pull"
TagNydusImage == <<110, 121, 100, 117, 115, 95, 105, 109, 97, 103, 101>>
    \* "nydus_image"
TagDmVerity == <<100, 109, 95, 118, 101, 114, 105, 116, 121>>
    \* "dm_verity"
TagMetadata == <<109, 101, 116, 97, 100, 97, 116, 97>>
    \* "metadata"
TagConfig == <<99, 111, 110, 102, 105, 103>>
    \* "config"
TagSnapshotDir == <<115, 110, 97, 112, 115, 104, 111, 116, 95, 100, 105, 114>>
    \* "snapshot_dir"
TagHashtype == <<104, 97, 115, 104, 116, 121, 112, 101>>
    \* "hashtype"
TagHash == <<104, 97, 115, 104>>
    \* "hash"
TagBlocknum == <<98, 108, 111, 99, 107, 110, 117, 109>>
    \* "blocknum"
TagBlocksize == <<98, 108, 111, 99, 107, 115, 105, 122, 101>>
    \* "blocksize"
TagHashsize == <<104, 97, 115, 104, 115, 105, 122, 101>>
    \* "hashsize"
TagOffset == <<111, 102, 102, 115, 101, 116>>
    \* "offset"
TagSnapshotdir == <<115, 110, 97, 112, 115, 104, 111, 116, 100, 105, 114>>
    \* "snapshotdir"
TagFsVersion == <<102, 115, 95, 118, 101, 114, 115, 105, 111, 110>>
    \* "fs_version"

ZeroDmVerityInfo ==
    [HashType |-> << >>, Hash |-> << >>, BlockNum |-> U64(0), Blocksize |-> U64(0),
     Hashsize |-> U64(0), Offset |-> U64(0)]
ZeroDirectAssignedVolume == [Metadata |-> NilMap]
ZeroImagePullVolume == [Metadata |-> NilMap]
ZeroNydusImageVolume == [Config |-> << >>, SnapshotDir |-> << >>]
ZeroKataVirtualVolume ==
    [VolumeType |-> << >>, Source |-> << >>, FSType |-> << >>, Options |-> NilSlice,
     DirectVolume |-> NilPtr, ImagePull |-> NilPtr, NydusImage |-> NilPtr,
     DmVerity |-> NilPtr]

-----------------------------------------------------------------------------
(* encoding/json: Marshal of the structs                                   *)

JNull == <<110, 117, 108, 108>>   \* null

\* "name":
JKey(name) == <<34>> \o name \o <<34, 58>>

RECURSIVE JoinComma(_)
JoinComma(parts) ==
    IF Len(parts) = 0 THEN << >>
    ELSE IF Len(parts) = 1 THEN parts[1]
    ELSE parts[1] \o <<44>> \o JoinComma(Tail(parts))

JObject(members) == <<123>> \o JoinComma(members) \o <<125>>

\* A nil map written as an empty object.
MarshalMap_NilAsEmpty(m) ==
    JObject([i \in 1..Len(m.pairs) |->
               JString(m.pairs[i][1]) \o <<58>> \o JString(m.pairs[i][2])])

\* A map: null when nil, else its members by ascending key.
MarshalMap(m) ==
    IF m.isNil THEN JNull
    ELSE JObject([i \in 1..Len(m.pairs) |->
                    JString(m.pairs[i][1]) \o <<58>> \o JString(m.pairs[i][2])])

MarshalStrings(elems) ==
    <<91>> \o JoinComma([i \in 1..Len(elems) |-> JString(elems[i])]) \o <<93>>

MarshalDmVerityInfo(d) ==
    JObject(<<JKey(TagHashtype) \o JString(d.HashType),
              JKey(TagHash) \o JString(d.Hash),
              JKey(TagBlocknum) \o DecimalOf(d.BlockNum),
              JKey(TagBlocksize) \o DecimalOf(d.Blocksize),
              JKey(TagHashsize) \o DecimalOf(d.Hashsize),
              JKey(TagOffset) \o DecimalOf(d.Offset)>>)

MarshalNydusImageVolume(n) ==
    JObject(<<JKey(TagConfig) \o JString(n.Config),
              JKey(TagSnapshotDir) \o JString(n.SnapshotDir)>>)

\* A member tagged omitempty is left out when its value is empty: the empty
\* string, a slice of length 0, a nil pointer.
OmitEmpty(empty, member) == IF empty THEN << >> ELSE <<member>>

\* json.Marshal(volume), volume a KataVirtualVolume: it returns no error.
MarshalKataVirtualVolume(k) ==
    JObject(
        <<JKey(TagVolumeType) \o JString(k.VolumeType)>>
        \o OmitEmpty(k.Source = << >>, JKey(TagSource) \o JString(k.Source))
        \o OmitEmpty(k.FSType = << >>, JKey(TagFsType) \o JString(k.FSType))
        \o OmitEmpty(Len(k.Options.elems) = 0,
                     JKey(TagOptions) \o MarshalStrings(k.Options.elems))
        \o OmitEmpty(k.DirectVolume = NilPtr,
                     JKey(TagDirectVolume) \o
                       (IF k.DirectVolume = NilPtr THEN JNull
                        ELSE JObject(<<JKey(TagMetadata) \o MarshalMap(k.DirectVolume[1].Metadata)>>)))
        \o OmitEmpty(k.ImagePull = NilPtr,
                     JKey(TagImagePull) \o
                       (IF k.ImagePull = NilPtr THEN JNull
                        ELSE JObject(<<JKey(TagMetadata) \o MarshalMap(k.ImagePull[1].Metadata)>>)))
        \o OmitEmpty(k.NydusImage = NilPtr,
                     JKey(TagNydusImage) \o
                       (IF k.NydusImage = NilPtr THEN JNull
                        ELSE MarshalNydusImageVolume(k.NydusImage[1])))
        \o OmitEmpty(k.DmVerity = NilPtr,
                     JKey(TagDmVerity) \o
                       (IF k.DmVerity = NilPtr THEN JNull
                        ELSE MarshalDmVerityInfo(k.DmVerity[1]))))

\* json.Marshal(extraOption): it returns no error.
MarshalExtraOption(o) ==
    JObject(<<JKey(TagSource) \o JString(o.Source),
              JKey(TagConfig) \o JString(o.Config),
              JKey(TagSnapshotdir) \o JString(o.Snapshotdir),
              JKey(TagFsVersion) \o JString(o.Version)>>)

-----------------------------------------------------------------------------
(* encoding/json: Unmarshal into the structs                               *)

\* a < b, byte strings in lexical order.
BytesLess(a, b) ==
    \/ Len(a) < Len(b) /\ SubSeq(b, 1, Len(a)) = a
    \/ \E i \in 1..(IF Len(a) < Len(b) THEN Len(a) ELSE Len(b)) :
          a[i] < b[i] /\ SubSeq(a, 1, i - 1) = SubSeq(b, 1, i - 1)

RECURSIVE FoldKey(_)
\* A member's key, folded as the decoder folds it to find the field: ASCII
\* letters to lower case, the Kelvin sign to 'k', the long s to 's'.
FoldKey(k) ==
    IF Len(k) = 0 THEN << >>
    ELSE IF Len(k) >= 3 /\ SubSeq(k, 1, 3) = <<226, 132, 170>>
         THEN <<107>> \o FoldKey(SubSeq(k, 4, Len(k)))
    ELSE IF Len(k) >= 2 /\ SubSeq(k, 1, 2) = <<197, 191>>
         THEN <<115>> \o FoldKey(SubSeq(k, 3, Len(k)))
    ELSE ToLower(<<k[1]>>) \o FoldKey(Tail(k))

\* The result of decoding: an error (an UnmarshalTypeError), or the value.
DecOk(v) == [err |-> FALSE, v |-> v]
DecErr(v) == [err |-> TRUE, v |-> v]

\* Into a string: a JSON string sets it, null leaves it.
DecString(val, cur) ==
    IF val.t = "str" THEN DecOk(val.s)
    ELSE IF val.t = "null" THEN DecOk(cur)
    ELSE DecErr(cur)

RECURSIVE MulSmallAddFrom(_, _, _, _)
\* a * m + carry, from limb i upwards: <<the limbs i..NumLimbs, the carry out
\* of them>>.
MulSmallAddFrom(a, m, i, carry) ==
    IF i > NumLimbs THEN << << >>, carry >>
    ELSE LET t == a[i] * m + carry
             rest == MulSmallAddFrom(a, m, i + 1, t \div LimbBase)
         IN  << <<t % LimbBase>> \o rest[1], rest[2] >>

RECURSIVE ParseUintFrom(_, _, _)
\* strconv.ParseUint(lit, 10, 64) from digit i on, acc the value so far.
ParseUintFrom(lit, i, acc) ==
    IF i > Len(lit) THEN DecOk(acc)
    ELSE IF ~IsDigit(lit[i]) THEN DecErr(acc)
    ELSE LET r == MulSmallAddFrom(acc, 10, 1, lit[i] - 48)
         IN  IF r[2] # 0 THEN DecErr(acc) ELSE ParseUintFrom(lit, i + 1, r[1])

\* Into a uint64: a JSON number that is a decimal below 2^64 sets it.
DecUint64(val, cur) ==
    IF val.t = "num" THEN
        (IF Len(val.s) > 20 THEN DecErr(cur) ELSE ParseUintFrom(val.s, 1, U64(0)))
    ELSE IF val.t = "null" THEN DecOk(cur)
    ELSE DecErr(cur)

RECURSIVE DecStringsFrom(_, _, _, _)
DecStringsFrom(kids, i, cur, acc) ==
    IF i > Len(kids) THEN DecOk(acc)
    ELSE LET r == DecString(kids[i], IF i <= Len(cur) THEN cur[i] ELSE << >>)
         IN  IF r.err THEN DecErr(acc)
             ELSE DecStringsFrom(kids, i + 1, cur, Append(acc, r.v))

\* Into a []string: an array of strings sets it, null makes it nil.
DecStrings(val, cur) ==
    IF val.t = "arr" THEN
        LET r == DecStringsFrom(val.kids, 1, cur.elems, << >>)
        IN  IF r.err THEN DecErr(cur) ELSE DecOk(Slice(r.v))
    ELSE IF val.t = "null" THEN DecOk(NilSlice)
    ELSE DecErr(cur)

\* The pairs with key set to value, the keys kept ascending.
MapSet(pairs, key, value) ==
    LET below == SelectSeq(pairs, LAMBDA p : BytesLess(p[1], key))
        above == SelectSeq(pairs, LAMBDA p : BytesLess(key, p[1]))
    IN  below \o <<(<<key, value>>)>> \o above

RECURSIVE DecMapFrom(_, _, _)
DecMapFrom(kids, i, pairs) ==
    IF i > Len(kids) THEN DecOk(pairs)
    ELSE LET r == DecString(kids[i].v, << >>)
         IN  IF r.err THEN DecErr(pairs)
             ELSE DecMapFrom(kids, i + 1, MapSet(pairs, kids[i].k, r.v))

\* Into a map[string]string: an object of strings is added to it, null
\* makes it nil.
DecMap(val, cur) ==
    IF val.t = "obj" THEN
        LET r == DecMapFrom(val.kids, 1, cur.pairs)
        IN  IF r.err THEN DecErr(cur) ELSE DecOk(Map(r.v))
    ELSE IF val.t = "null" THEN DecOk(NilMap)
    ELSE DecErr(cur)

RECURSIVE DecMembers(_, _, _, _)

\* Into a struct of type ty: an object sets the fields its members name,
\* null leaves the struct.
DecStruct(ty, val, cur) ==
    IF val.t = "obj" THEN DecMembers(ty, val.kids, 1, cur)
    ELSE IF val.t = "null" THEN DecOk(cur)
    ELSE DecErr(cur)

\* Into a pointer to a struct of type ty: an object is decoded into what it
\* points to, a new zero struct when it is nil; null makes it nil.
DecPtr(ty, zero, val, cur) ==
    IF val.t = "null" THEN DecOk(NilPtr)
    ELSE LET r == DecStruct(ty, val, IF cur = NilPtr THEN zero ELSE cur[1])
         IN  IF r.err THEN DecErr(cur) ELSE DecOk(Ptr(r.v))

\* The member key: val into the field of the struct cur, of type ty, that the
\* key names; a key that names no field is skipped.
DecField(ty, cur, key, val) ==
    LET name == FoldKey(key)
        Set(field, r) == [err |-> r.err, v |-> [cur EXCEPT ![field] = r.v]]
    IN  CASE ty = "KataVirtualVolume" /\ name = TagVolumeType ->
               Set("VolumeType", DecString(val, cur.VolumeType))
          [] ty = "KataVirtualVolume" /\ name = TagSource ->
               Set("Source", DecString(val, cur.Source))
          [] ty = "KataVirtualVolume" /\ name = TagFsType ->
               Set("FSType", DecString(val, cur.FSType))
          [] ty = "KataVirtualVolume" /\ name = TagOptions ->
               Set("Options", DecStrings(val, cur.Options))
          [] ty = "KataVirtualVolume" /\ name = TagDirectVolume ->
               Set("DirectVolume", DecPtr("DirectAssignedVolume",
                                          ZeroDirectAssignedVolume, val, cur.DirectVolume))
          [] ty = "KataVirtualVolume" /\ name = TagImagePull ->
               Set("ImagePull", DecPtr("ImagePullVolume",
                                       ZeroImagePullVolume, val, cur.ImagePull))
          [] ty = "KataVirtualVolume" /\ name = TagNydusImage ->
               Set("NydusImage", DecPtr("NydusImageVolume",
                                        ZeroNydusImageVolume, val, cur.NydusImage))
          [] ty = "KataVirtualVolume" /\ name = TagDmVerity ->
               Set("DmVerity", DecPtr("DmVerityInfo", ZeroDmVerityInfo, val, cur.DmVerity))
          [] ty \in {"DirectAssignedVolume", "ImagePullVolume"} /\ name = TagMetadata ->
               Set("Metadata", DecMap(val, cur.Metadata))
          [] ty = "NydusImageVolume" /\ name = TagConfig ->
               Set("Config", DecString(val, cur.Config))
          [] ty = "NydusImageVolume" /\ name = TagSnapshotDir ->
               Set("SnapshotDir", DecString(val, cur.SnapshotDir))
          [] ty = "DmVerityInfo" /\ name = TagHashtype ->
               Set("HashType", DecString(val, cur.HashType))
          [] ty = "DmVerityInfo" /\ name = TagHash ->
               Set("Hash", DecString(val, cur.Hash))
          [] ty = "DmVerityInfo" /\ name = TagBlocknum ->
               Set("BlockNum", DecUint64(val, cur.BlockNum))
          [] ty = "DmVerityInfo" /\ name = TagBlocksize ->
               Set("Blocksize", DecUint64(val, cur.Blocksize))
          [] ty = "DmVerityInfo" /\ name = TagHashsize ->
               Set("Hashsize", DecUint64(val, cur.Hashsize))
          [] ty = "DmVerityInfo" /\ name = TagOffset ->
               Set("Offset", DecUint64(val, cur.Offset))
          [] OTHER -> DecOk(cur)

\* The members i.. of an object into the struct cur, in the order of the
\* text; a member of the wrong type makes Unmarshal return an error.
DecMembers(ty, kids, i, cur) ==
    IF i > Len(kids) THEN DecOk(cur)
    ELSE LET r == DecField(ty, cur, kids[i].k, kids[i].v)
         IN  IF r.err THEN r ELSE DecMembers(ty, kids, i + 1, r.v)

\* json.Unmarshal(option, no), no a new KataVirtualVolume: the descriptor, or
\* an error (a syntax error, or a value of the wrong type).
UnmarshalKataVirtualVolume(option) ==
    LET p == JParse(option)
    IN  IF p.err THEN DecErr(ZeroKataVirtualVolume)
        ELSE DecStruct("KataVirtualVolume", p.val, ZeroKataVirtualVolume)

-----------------------------------------------------------------------------
(* State                                                                   *)

VARIABLES
    verity,     \* the DmVerityInfo a run of DmVerityInfo.IsValid is given
    vrun,       \* that run: the check it is at, or what it returned
    volume,     \* the KataVirtualVolume a call of IsValid is given
    kres,       \* that call: [done, ok]
    cvol,       \* the KataVirtualVolume a producer encodes
    wire,       \* what EncodeKataVirtualVolumeToBase64 returned for it
    option,     \* the string ParseKataVirtualVolumeFromBase64 is given
    cpc,        \* where the producer and the parser are
    opt,        \* the parser's decoded bytes
    no,         \* the parser's unmarshalled descriptor
    result,     \* what the parser returned: [vol, err]
    mpc,        \* where remoteMountWithExtraOptions is
    callOptions,    \* the overlay options its caller passed
    overlayOptions, \* its variable overlayOptions
    source,     \* the bootstrap path
    instance,   \* the instance the cache returned, a pointer
    daemon,     \* the daemon
    c,          \* the configuration taken: of the instance or of the daemon
    configContent,  \* the serialized configuration
    f,          \* the bootstrap file handle: "none", "open" or "closed"
    deferred,   \* the deferred calls
    header,     \* what the header read from the file holds
    version,    \* the detected version
    snapDir,    \* the snapshot directory
    logged,     \* what was logged
    mounts,     \* the mounts returned
    merr,       \* the error returned
    calls,      \* the collaborator calls made, in order
    fileLog,    \* the file opened and closed, in order
    reads       \* the state of the file handle at each read of it

verityVars == <<verity, vrun>>
volumeVars == <<volume, kres>>
codecVars == <<cvol, wire, option, cpc, opt, no, result>>
mountVars ==
    <<mpc, callOptions, overlayOptions, source, instance, daemon, c, configContent,
      f, deferred, header, version, snapDir, logged, mounts, merr, calls, fileLog, reads>>
vars == <<verityVars, volumeVars, codecVars, mountVars>>

NoResult == [vol |-> NilPtr, err |-> Nil]

IdleVerity == verity = ZeroDmVerityInfo /\ vrun = VReturn(Nil)
IdleVolume == volume = ZeroKataVirtualVolume /\ kres = [done |-> TRUE, ok |-> FALSE]
IdleCodec ==
    /\ cvol = ZeroKataVirtualVolume
    /\ wire = << >>
    /\ option = << >>
    /\ cpc = "idle"
    /\ opt = << >>
    /\ no = ZeroKataVirtualVolume
    /\ result = NoResult
IdleMount ==
    /\ mpc = "idle"
    /\ callOptions = << >>
    /\ overlayOptions = << >>
    /\ source = << >>
    /\ instance = NilPtr
    /\ daemon = NilPtr
    /\ c = "none"
    /\ configContent = << >>
    /\ f = "none"
    /\ deferred = << >>
    /\ header = << >>
    /\ version = << >>
    /\ snapDir = << >>
    /\ logged = << >>
    /\ mounts = NilSlice
    /\ merr = Nil
    /\ calls = << >>
    /\ fileLog = << >>
    /\ reads = << >>

-----------------------------------------------------------------------------
(* DmVerityInfo.IsValid, a check at a time                                 *)

\* 2^19 * (2^32 - 1): the greatest data size that passes the checks.
MaxDataSize == U64Mul(U64(maxBlockSize), MaxUint32)

VerityHashTypes ==
    {StrSha256, <<83, 104, 97, 49>>, <<109, 100, 53>>, << >>}
    \* "sha256", "Sha1", "md5", ""
VerityHashes ==
    {Rep(97, 64), Rep(70, 40), Rep(97, 63) \o <<103>>, << >>}
    \* 64 times 'a', 40 times 'F', 63 times 'a' then 'g', ""
VerityBlockNums ==
    {U64(0), U64(1), U64(100), MaxUint32, U64Pow2(32), U64Pow2(55)}
VerityBlockSizes ==
    {U64(0), U64(minBlockSize - 1), U64(minBlockSize), U64(4096),
     U64(maxBlockSize), U64(maxBlockSize + 1)}
VerityOffsets ==
    {U64(0), U64(409600), U64(409601), MaxDataSize, U64Pow2(63), MaxUint64}

VerityInputs ==
    [HashType : VerityHashTypes, Hash : VerityHashes, BlockNum : VerityBlockNums,
     Blocksize : VerityBlockSizes, Hashsize : VerityBlockSizes,
     Offset : VerityOffsets]

InitVerity ==
    /\ verity \in VerityInputs
    /\ vrun = VAt("hashType")
    /\ IdleVolume /\ IdleCodec /\ IdleMount

\* err := d.validateHashType(); if err != nil { return err }
ValidateHashType ==
    /\ vrun.stage = "hashType"
    /\ vrun' = VerityStep("hashType", verity)
    /\ UNCHANGED <<verity, volumeVars, codecVars, mountVars>>

\* if d.BlockNum == 0 || d.BlockNum > uint64(^uint32(0)) { return ... }
CheckBlockNum ==
    /\ vrun.stage = "blockNum"
    /\ vrun' = VerityStep("blockNum", verity)
    /\ UNCHANGED <<verity, volumeVars, codecVars, mountVars>>

\* if !isValidBlockSize(d.Blocksize) || !isValidBlockSize(d.Hashsize) { return ... }
CheckBlockSize ==
    /\ vrun.stage = "blockSize"
    /\ vrun' = VerityStep("blockSize", verity)
    /\ UNCHANGED <<verity, volumeVars, codecVars, mountVars>>

\* if d.Offset%d.Hashsize != 0 || d.Offset < d.Blocksize*d.BlockNum { return ... }
\* return nil
CheckOffset ==
    /\ vrun.stage = "offset"
    /\ vrun' = VerityStep("offset", verity)
    /\ UNCHANGED <<verity, volumeVars, codecVars, mountVars>>

NextVerity == ValidateHashType \/ CheckBlockNum \/ CheckBlockSize \/ CheckOffset

SpecVerity == InitVerity /\ [][NextVerity]_vars

-----------------------------------------------------------------------------
(* KataVirtualVolume.IsValid                                               *)

\* A descriptor that passes DmVerityInfo.IsValid, and one that does not.
GoodVerity ==
    [HashType |-> StrSha256, Hash |-> Rep(97, 64), BlockNum |-> U64(100),
     Blocksize |-> U64(4096), Hashsize |-> U64(4096), Offset |-> U64(409600)]
BadVerity == [GoodVerity EXCEPT !.Offset = U64(409601)]

VolumeTypes ==
    {KataVirtualVolumeDirectBlockType, KataVirtualVolumeImageRawBlockType,
     KataVirtualVolumeLayerRawBlockType, KataVirtualVolumeImageNydusBlockType,
     KataVirtualVolumeLayerNydusBlockType, KataVirtualVolumeImageNydusFsType,
     KataVirtualVolumeLayerNydusFsType, KataVirtualVolumeImageGuestPullType}

\* "", "other" and "Direct_block": no volume type.
OtherTypes ==
    {<< >>, <<111, 116, 104, 101, 114>>,
     <<68>> \o Tail(KataVirtualVolumeDirectBlockType)}

MetadataInputs == {NilMap, Map(<< >>), Map(<< <<(<<107>>), (<<118>>)>> >>)}

VolumeInputs ==
    [VolumeType : VolumeTypes \cup OtherTypes,
     Source : {<< >>, <<105, 109, 103>>},
     FSType : {<< >>},
     Options : {NilSlice},
     DirectVolume : {NilPtr} \cup {Ptr([Metadata |-> m]) : m \in MetadataInputs},
     ImagePull : {NilPtr} \cup {Ptr([Metadata |-> m]) : m \in {NilMap, Map(<< >>)}},
     NydusImage : {NilPtr} \cup
                  {Ptr([Config |-> cfg, SnapshotDir |-> d]) :
                     cfg \in {<< >>, <<123, 125>>}, d \in {<< >>, <<47, 115>>}},
     DmVerity : {NilPtr, Ptr(GoodVerity), Ptr(BadVerity)}]

InitVolume ==
    /\ volume \in VolumeInputs
    /\ kres = [done |-> FALSE, ok |-> FALSE]
    /\ IdleVerity /\ IdleCodec /\ IdleMount

\* volume.IsValid()
IsValid ==
    /\ ~kres.done
    /\ kres' = [done |-> TRUE, ok |-> KataVirtualVolumeIsValid(volume)]
    /\ UNCHANGED <<volume, verityVars, codecVars, mountVars>>

NextVolume == IsValid

SpecVolume == InitVolume /\ [][NextVolume]_vars

-----------------------------------------------------------------------------
(* EncodeKataVirtualVolumeToBase64 and ParseKataVirtualVolumeFromBase64    *)

ErrBase64Decoding == "KataVirtualVolume base64 decoding err"
ErrJSONUnmarshal == "KataVirtualVolume json unmarshal err"
ErrNotCorrect == "KataVirtualVolume is not correct"

\* EncodeKataVirtualVolumeToBase64(volume): json.Marshal of a
\* KataVirtualVolume returns no error, so err is nil.
EncodeKataVirtualVolumeToBase64(vol) ==
    [option |-> B64EncodeToString(MarshalKataVirtualVolume(vol)), err |-> Nil]

\* The descriptor is returned although it is not valid.
ParseKataVirtualVolumeCheck_ReturnsInvalid(n) ==
    IF KataVirtualVolumeIsValid(n) THEN [vol |-> Ptr(n), err |-> Nil]
    ELSE [vol |-> Ptr(n), err |-> ErrNotCorrect]

\* ParseKataVirtualVolume after json.Unmarshal: no, or nil and an error.
ParseKataVirtualVolumeCheck(n) ==
    IF KataVirtualVolumeIsValid(n) THEN [vol |-> Ptr(n), err |-> Nil]
    ELSE [vol |-> NilPtr, err |-> ErrNotCorrect]

\* The descriptors a producer encodes: one of each volume type that passes
\* IsValid, and each of them with one field changed.
BaseVolumes ==
    LET B(t) == [ZeroKataVirtualVolume EXCEPT !.VolumeType = t,
                                              !.Source = <<105, 109, 103>>]
    IN  {[B(KataVirtualVolumeDirectBlockType) EXCEPT
             !.DirectVolume = Ptr([Metadata |-> Map(<< >>)])],
         B(KataVirtualVolumeImageRawBlockType),
         [B(KataVirtualVolumeLayerNydusFsType) EXCEPT
             !.NydusImage = Ptr([Config |-> <<123, 125>>, SnapshotDir |-> << >>])],
         [B(KataVirtualVolumeImageGuestPullType) EXCEPT
             !.ImagePull = Ptr([Metadata |-> Map(<< >>)])]}

\* "", "img", "\xff", "a\"<\n", "\xc3\xa9" (e acute), "\xe2\x80\xa8" (U+2028),
\* "\xc3(" (a first byte without its continuation)
StringInputs ==
    {<< >>, <<105, 109, 103>>, <<255>>, <<97, 34, 60, 10>>, <<195, 169>>,
     <<226, 128, 168>>, <<195, 40>>}

OptionsInputs ==
    {NilSlice, Slice(<< >>), Slice(<< <<114, 111>> >>),
     Slice(<< <<114, 119>>, << >>, <<114, 111>> >>), Slice(<< <<255>> >>)}

\* nil, {}, {"k":"v"}, {"b":"1","a":"2"} as Go keeps it, and two maps whose
\* keys are not UTF-8
CodecMetadataInputs ==
    MetadataInputs \cup
    {Map(<< <<(<<97>>), (<<50>>)>>, <<(<<98>>), (<<49>>)>> >>),
     Map(<< <<(<<254>>), (<<49>>)>>, <<(<<255>>), (<<50>>)>> >>),
     Map(<< <<(<<107>>), (<<128>>)>> >>)}

CodecVerityInputs ==
    {GoodVerity, BadVerity,
     [GoodVerity EXCEPT !.HashType = <<83, 72, 65, 49>>, !.Hash = Rep(70, 40)],
     [GoodVerity EXCEPT !.HashType = <<109, 100, 53>>],
     [GoodVerity EXCEPT !.BlockNum = MaxUint32, !.Blocksize = U64(maxBlockSize),
                        !.Offset = U64Mul(MaxUint32, U64(maxBlockSize))],
     [GoodVerity EXCEPT !.BlockNum = MaxUint64, !.Offset = MaxUint64],
     [GoodVerity EXCEPT !.Hash = Rep(255, 64)],
     ZeroDmVerityInfo}

CodecVolumes ==
    UNION {
      {[b EXCEPT !.VolumeType = t] : t \in VolumeTypes \cup OtherTypes \cup {<<255>>}}
      \cup {[b EXCEPT !.Source = x] : x \in StringInputs}
      \cup {[b EXCEPT !.FSType = x] : x \in StringInputs}
      \cup {[b EXCEPT !.Options = x] : x \in OptionsInputs}
      \cup {[b EXCEPT !.DirectVolume = x] :
              x \in {NilPtr} \cup {Ptr([Metadata |-> m]) : m \in CodecMetadataInputs}}
      \cup {[b EXCEPT !.ImagePull = x] :
              x \in {NilPtr} \cup {Ptr([Metadata |-> m]) : m \in CodecMetadataInputs}}
      \cup {[b EXCEPT !.NydusImage = x] :
              x \in {NilPtr} \cup
                    {Ptr([Config |-> cfg, SnapshotDir |-> d]) :
                       cfg \in {<< >>, <<123, 125>>, <<255>>}, d \in {<< >>, <<47, 115>>}}}
      \cup {[b EXCEPT !.DmVerity = x] :
              x \in {NilPtr} \cup {Ptr(d) : d \in CodecVerityInputs}}
      : b \in BaseVolumes}

\* The option string may lose up to MaxCut characters at its end on the way.
MaxCut == 4

\* JSON texts that are not a KataVirtualVolume's, or not JSON:
\* {"volume_type":1}   {"source":["a"]}   null   {"volume_type":"direct_block"
ForeignTexts ==
    {<<123>> \o JKey(TagVolumeType) \o <<49, 125>>,
     <<123>> \o JKey(TagSource) \o <<91, 34, 97, 34, 93, 125>>,
     JNull,
     <<123>> \o JKey(TagVolumeType) \o JString(KataVirtualVolumeDirectBlockType)}

\* What may arrive at the parser when w was sent: w, w cut short, w with a
\* character that is no base64, w with a newline in it, or a string of
\* another sender.
Arrivals(w) ==
    {w}
    \cup {SubSeq(w, 1, Len(w) - k) : k \in 1..MaxCut}
    \cup {<<w[1], 33>> \o SubSeq(w, 3, Len(w)), <<10>> \o w}
    \cup {B64EncodeToString(t) : t \in ForeignTexts}

InitCodec ==
    /\ cvol \in CodecVolumes
    /\ wire = << >>
    /\ option = << >>
    /\ cpc = "encode"
    /\ opt = << >>
    /\ no = ZeroKataVirtualVolume
    /\ result = NoResult
    /\ IdleVerity /\ IdleVolume /\ IdleMount

\* The producer: EncodeKataVirtualVolumeToBase64(cvol).
Encode ==
    /\ cpc = "encode"
    /\ wire' = EncodeKataVirtualVolumeToBase64(cvol).option
    /\ cpc' = "sent"
    /\ UNCHANGED <<cvol, option, opt, no, result, verityVars, volumeVars, mountVars>>

\* The consumer calls ParseKataVirtualVolumeFromBase64(option).
Receive ==
    /\ cpc = "sent"
    /\ option' \in Arrivals(wire)
    /\ cpc' = "base64"
    /\ UNCHANGED <<cvol, wire, opt, no, result, verityVars, volumeVars, mountVars>>

\* ParseKataVirtualVolumeFromBase64: base64.StdEncoding.DecodeString.
DecodeBase64 ==
    /\ cpc = "base64"
    /\ LET r == B64DecodeString(option)
       IN  IF r.err
           THEN /\ result' = [vol |-> NilPtr, err |-> ErrBase64Decoding]
                /\ cpc' = "done"
                /\ opt' = opt
           ELSE /\ opt' = r.bytes
                /\ cpc' = "unmarshal"
                /\ result' = result
    /\ UNCHANGED <<cvol, wire, option, no, verityVars, volumeVars, mountVars>>

\* ParseKataVirtualVolume: json.Unmarshal(option, no).
Unmarshal ==
    /\ cpc = "unmarshal"
    /\ LET r == UnmarshalKataVirtualVolume(opt)
       IN  /\ no' = r.v
           /\ IF r.err
              THEN /\ result' = [vol |-> NilPtr, err |-> ErrJSONUnmarshal]
                   /\ cpc' = "done"
              ELSE /\ cpc' = "valid"
                   /\ result' = result
    /\ UNCHANGED <<cvol, wire, option, opt, verityVars, volumeVars, mountVars>>

\* ParseKataVirtualVolume: no.IsValid() and the return.
CheckValid ==
    /\ cpc = "valid"
    /\ result' = ParseKataVirtualVolumeCheck(no)
    /\ cpc' = "done"
    /\ UNCHANGED <<cvol, wire, option, opt, no, verityVars, volumeVars, mountVars>>

NextCodec == Encode \/ Receive \/ DecodeBase64 \/ Unmarshal \/ CheckValid

SpecCodec == InitCodec /\ [][NextCodec]_vars

-----------------------------------------------------------------------------
(* snapshotter.remoteMountWithExtraOptions                                 *)

\* The errors it returns: BootstrapFile's as it is, the others wrapped.
ErrBootstrapFile == "BootstrapFile error"
ErrGetDaemon == "get daemon with ID"
ErrLoadConfig == "Failed to load instance configuration"
ErrDumpConfig == "remoteMounts: failed to marshal config"
ErrOpenBootstrap == "remoteMounts: check bootstrap version: failed to open bootstrap"
ErrReadBootstrap == "remoteMounts: check bootstrap version: failed to read bootstrap"
ErrDetectVersion == "remoteMounts: failed to detect filesystem version"

\* "extraoption=", "fuse.nydus-overlayfs", "overlay"
StrExtraOption == <<101, 120, 116, 114, 97, 111, 112, 116, 105, 111, 110, 61>>
StrFuseNydusOverlayfs ==
    <<102, 117, 115, 101, 46, 110, 121, 100, 117, 115, 45, 111, 118, 101, 114, 108,
      97, 121, 102, 115>>
StrOverlay == <<111, 118, 101, 114, 108, 97, 121>>

\* The JSON itself after the prefix.
ExtraOptionString_NoBase64(bytes) == StrExtraOption \o bytes

\* fmt.Sprintf("extraoption=%s", base64.StdEncoding.EncodeToString(no))
ExtraOptionString(bytes) == StrExtraOption \o B64EncodeToString(bytes)

\* The deferred calls run when the function returns or panics: f.Close().
RunDeferred ==
    /\ f' = IF deferred = << >> THEN f ELSE "closed"
    /\ fileLog' = IF deferred = << >> THEN fileLog ELSE Append(fileLog, "close")
    /\ deferred' = << >>

\* The file is closed before the successful return only.
Return_CloseOnSuccessOnly(m, e) ==
    /\ mounts' = m
    /\ merr' = e
    /\ mpc' = "returned"
    /\ f' = IF f = "open" /\ e = Nil THEN "closed" ELSE f
    /\ fileLog' = IF f = "open" /\ e = Nil THEN Append(fileLog, "close") ELSE fileLog
    /\ deferred' = << >>

\* return m, e
Return(m, e) ==
    /\ mounts' = m
    /\ merr' = e
    /\ mpc' = "returned"
    /\ RunDeferred

\* On to the next statement.
Goto(next) ==
    /\ mpc' = next
    /\ UNCHANGED <<mounts, merr, f, deferred, fileLog>>

\* What the caller passes as overlayOptions: up to MaxOverlayOptions of
\* "ro", "extraoption=QQ==" and "extraoption=!".
MaxOverlayOptions == 2
OverlayOptionStrings ==
    {<<114, 111>>, StrExtraOption \o <<81, 81, 61, 61>>, StrExtraOption \o <<33>>}
OverlayOptionInputs ==
    UNION {[1..n -> OverlayOptionStrings] : n \in 0..MaxOverlayOptions}

\* Paths: "/b" and "/\xff", a file name that is not UTF-8.
PathInputs == {<<47, 98>>, <<47, 255>>}
\* Serialized configurations: "", {"a":"<b>"} and a text with the byte 0x80.
ConfigInputs ==
    {<< >>, <<123, 34, 97, 34, 58, 34, 60, 98, 62, 34, 125>>, <<123, 128, 125>>}
\* Daemons, shared or not.
DaemonInputs == {[shared |-> TRUE], [shared |-> FALSE]}
\* Instances of the cache.
InstanceInputs == {[DaemonID |-> "d1", SnapshotID |-> "s1"]}
\* What f.Read puts in header: "RAFS", or one byte 0.
HeaderInputs == {<<82, 65, 70, 83>>, <<0>>}
\* The versions layout.DetectFsVersion returns: "v5", "v6".
VersionInputs == {<<118, 53>>, <<118, 54>>}

InitMount ==
    /\ callOptions \in OverlayOptionInputs
    /\ overlayOptions = callOptions
    /\ mpc = "BootstrapFile"
    /\ source = << >>
    /\ instance = NilPtr
    /\ daemon = NilPtr
    /\ c = "none"
    /\ configContent = << >>
    /\ f = "none"
    /\ deferred = << >>
    /\ header = << >>
    /\ version = << >>
    /\ snapDir = << >>
    /\ logged = << >>
    /\ mounts = NilSlice
    /\ merr = Nil
    /\ calls = << >>
    /\ fileLog = << >>
    /\ reads = << >>
    /\ IdleVerity /\ IdleVolume /\ IdleCodec

\* source, err := o.fs.BootstrapFile(id)
BootstrapFile ==
    /\ mpc = "BootstrapFile"
    /\ calls' = Append(calls, "BootstrapFile")
    /\ \E r \in {[err |-> ErrBootstrapFile, v |-> << >>]}
                \cup {[err |-> Nil, v |-> p] : p \in PathInputs} :
          /\ source' = r.v
          /\ IF r.err # Nil THEN Return(NilSlice, r.err) ELSE Goto("Get")
    /\ UNCHANGED <<callOptions, overlayOptions, instance, daemon, c, configContent,
                   header, version, snapDir, logged, reads>>
    /\ UNCHANGED <<verityVars, volumeVars, codecVars>>

\* instance := rafs.RafsGlobalCache.Get(id): the instance, or nil when the
\* cache has none for id.
Get ==
    /\ mpc = "Get"
    /\ calls' = Append(calls, "RafsGlobalCache.Get")
    /\ instance' \in {NilPtr} \cup {Ptr(i) : i \in InstanceInputs}
    /\ Goto("GetDaemonByID")
    /\ UNCHANGED <<callOptions, overlayOptions, source, daemon, c, configContent,
                   header, version, snapDir, logged, reads>>
    /\ UNCHANGED <<verityVars, volumeVars, codecVars>>

\* daemon, err := o.fs.GetDaemonByID(instance.DaemonID): the argument is
\* evaluated first, and instance.DaemonID of a nil instance panics.
GetDaemonByID ==
    /\ mpc = "GetDaemonByID"
    /\ IF instance = NilPtr
       THEN /\ mpc' = "panicked"
            /\ RunDeferred
            /\ UNCHANGED <<daemon, mounts, merr, calls>>
       ELSE /\ calls' = Append(calls, "GetDaemonByID")
            /\ \E r \in {[err |-> ErrGetDaemon, v |-> NilPtr]}
                        \cup {[err |-> Nil, v |-> Ptr(d)] : d \in DaemonInputs} :
                  /\ daemon' = r.v
                  /\ IF r.err # Nil THEN Return(NilSlice, r.err) ELSE Goto("Config")
    /\ UNCHANGED <<callOptions, overlayOptions, source, instance, c, configContent,
                   header, version, snapDir, logged, reads>>
    /\ UNCHANGED <<verityVars, volumeVars, codecVars>>

\* The configuration: of the instance, loaded by NewDaemonConfig, when the
\* daemon is shared, else the daemon's own.
Config ==
    /\ mpc = "Config"
    /\ IF daemon[1].shared
       THEN /\ calls' = Append(calls, "NewDaemonConfig")
            /\ \E err \in {ErrLoadConfig, Nil} :
                  IF err # Nil THEN Return(NilSlice, err) /\ c' = c
                  ELSE Goto("DumpString") /\ c' = "instance"
       ELSE /\ c' = "daemon"
            /\ Goto("DumpString")
            /\ calls' = calls
    /\ UNCHANGED <<callOptions, overlayOptions, source, instance, daemon,
                   configContent, header, version, snapDir, logged, reads>>
    /\ UNCHANGED <<verityVars, volumeVars, codecVars>>

\* configContent, err := c.DumpString()
DumpString ==
    /\ mpc = "DumpString"
    /\ calls' = Append(calls, "DumpString")
    /\ \E r \in {[err |-> ErrDumpConfig, v |-> << >>]}
                \cup {[err |-> Nil, v |-> t] : t \in ConfigInputs} :
          /\ configContent' = r.v
          /\ IF r.err # Nil THEN Return(NilSlice, r.err) ELSE Goto("Open")
    /\ UNCHANGED <<callOptions, overlayOptions, source, instance, daemon, c,
                   header, version, snapDir, logged, reads>>
    /\ UNCHANGED <<verityVars, volumeVars, codecVars>>

\* f, err := os.Open(source), and defer f.Close()
Open ==
    /\ mpc = "Open"
    /\ calls' = Append(calls, "os.Open")
    /\ \E err \in {ErrOpenBootstrap, Nil} :
          IF err # Nil THEN Return(NilSlice, err)
          ELSE /\ f' = "open"
               /\ fileLog' = Append(fileLog, "open")
               /\ deferred' = <<"f.Close">> \o deferred
               /\ mpc' = "Read"
               /\ UNCHANGED <<mounts, merr>>
    /\ UNCHANGED <<callOptions, overlayOptions, source, instance, daemon, c,
                   configContent, header, version, snapDir, logged, reads>>
    /\ UNCHANGED <<verityVars, volumeVars, codecVars>>

\* sz, err := f.Read(header): an empty file gives io.EOF.
Read ==
    /\ mpc = "Read"
    /\ calls' = Append(calls, "f.Read")
    /\ reads' = Append(reads, f)
    /\ \E r \in {[err |-> ErrReadBootstrap, v |-> << >>]}
                \cup {[err |-> Nil, v |-> h] : h \in HeaderInputs} :
          /\ header' = r.v
          /\ IF r.err # Nil THEN Return(NilSlice, r.err) ELSE Goto("DetectFsVersion")
    /\ UNCHANGED <<callOptions, overlayOptions, source, instance, daemon, c,
                   configContent, version, snapDir, logged>>
    /\ UNCHANGED <<verityVars, volumeVars, codecVars>>

\* version, err := layout.DetectFsVersion(header[0:sz])
DetectVersion ==
    /\ mpc = "DetectFsVersion"
    /\ calls' = Append(calls, "DetectFsVersion")
    /\ \E r \in {[err |-> ErrDetectVersion, v |-> << >>]}
                \cup {[err |-> Nil, v |-> v] : v \in VersionInputs} :
          /\ version' = r.v
          /\ IF r.err # Nil THEN Return(NilSlice, r.err) ELSE Goto("Marshal")
    /\ UNCHANGED <<callOptions, overlayOptions, source, instance, daemon, c,
                   configContent, header, snapDir, logged, reads>>
    /\ UNCHANGED <<verityVars, volumeVars, codecVars>>

\* The ExtraOption is built and marshalled (json.Marshal of four strings
\* returns no error), the caller's options are logged, the option is appended
\* and the mount returned.
Mount ==
    /\ mpc = "Marshal"
    /\ calls' = Append(calls, "snapshotDir")
    /\ \E dir \in PathInputs :
          LET extraOption == [Source |-> source, Config |-> configContent,
                              Snapshotdir |-> dir, Version |-> version]
              o2 == ExtraOptionString(MarshalExtraOption(extraOption))
          IN  /\ snapDir' = dir
              /\ logged' = overlayOptions
              /\ overlayOptions' = Append(overlayOptions, o2)
              /\ Return(Slice(<<[Type |-> StrFuseNydusOverlayfs,
                                 Source |-> StrOverlay,
                                 Options |-> Append(overlayOptions, o2)]>>),
                        Nil)
    /\ UNCHANGED <<callOptions, source, instance, daemon, c, configContent,
                   header, version, reads>>
    /\ UNCHANGED <<verityVars, volumeVars, codecVars>>

NextMount ==
    \/ BootstrapFile
    \/ Get
    \/ GetDaemonByID
    \/ Config
    \/ DumpString
    \/ Open
    \/ Read
    \/ DetectVersion
    \/ Mount

SpecMount == InitMount /\ [][NextMount]_vars

-----------------------------------------------------------------------------
(* The rules of the verity descriptor and the validation table             *)

Rule1(d) == ToLower(d.HashType) \in {StrSha256, StrSha1}
Rule2(d) ==
    /\ HexDecodes(d.Hash)
    /\ Len(d.Hash) = (IF ToLower(d.HashType) = StrSha256 THEN 64 ELSE 40)
Rule3(d) == ~LimbsZero(d.BlockNum) /\ ~LimbsLess(MaxUint32, d.BlockNum)
InBlockSizeRange(x) ==
    ~LimbsLess(x, U64(minBlockSize)) /\ ~LimbsLess(U64(maxBlockSize), x)
Rule4(d) == InBlockSizeRange(d.Blocksize) /\ InBlockSizeRange(d.Hashsize)
\* The offset against the mathematical product, on 2 * NumLimbs limbs.
Rule5(d) ==
    /\ IF LimbsZero(d.Hashsize) THEN LimbsZero(d.Offset)
       ELSE LimbsZero(U64Mod(d.Offset, d.Hashsize))
    /\ ~LimbsLess(d.Offset \o U64(0), FullProduct(d.Blocksize, d.BlockNum))

FirstViolatedRule(d) ==
    IF ~Rule1(d) THEN ErrUnsupportedAlgorithm
    ELSE IF ~Rule2(d) THEN ErrInvalidHashEncoding
    ELSE IF ~Rule3(d) THEN ErrInvalidBlockCount
    ELSE IF ~Rule4(d) THEN ErrInvalidBlockSize
    ELSE IF ~Rule5(d) THEN ErrInvalidOffset
    ELSE Nil

\* C2: IsValid returns nil exactly when the five rules hold, and otherwise
\* the error of the lowest-numbered rule that is violated.
C2_FirstViolatedRuleWins ==
    vrun.stage \notin VStages => vrun = VReturn(FirstViolatedRule(verity))

\* A descriptor that violates rules 3, 4 and 5 is reported with rule 3.
C2_Witness ==
    /\ vrun = VReturn(ErrInvalidBlockCount)
    /\ ~Rule4(verity)
    /\ ~Rule5(verity)

\* C10: IsValid never divides by zero, and when it reaches the offset check
\* the hash block size is not 0 and data block size * block count is at
\* most 2^19 * (2^32 - 1), so below 2^64: the uint64 product is the product.
C10_OffsetCheckIsTotal ==
    /\ vrun.stage # "panicked"
    /\ vrun.stage = "offset" =>
          /\ ~LimbsZero(verity.Hashsize)
          /\ ~MulWraps(verity.Blocksize, verity.BlockNum)
          /\ ~LimbsLess(MaxDataSize \o U64(0),
                        FullProduct(verity.Blocksize, verity.BlockNum))
          /\ U64Mul(verity.Blocksize, verity.BlockNum) \o U64(0)
               = FullProduct(verity.Blocksize, verity.BlockNum)

\* The offset check is reached with the greatest sizes: 2^19 * (2^32 - 1).
C10_Witness ==
    /\ vrun.stage = "offset"
    /\ verity.Blocksize = U64(maxBlockSize)
    /\ verity.BlockNum = MaxUint32
    /\ verity.Offset = MaxDataSize

NydusTypes ==
    {KataVirtualVolumeImageNydusBlockType, KataVirtualVolumeLayerNydusBlockType,
     KataVirtualVolumeImageNydusFsType, KataVirtualVolumeLayerNydusFsType}
RawBlockTypes ==
    {KataVirtualVolumeImageRawBlockType, KataVirtualVolumeLayerRawBlockType}

\* The row of the validation table for the descriptor's volume type.
ValidationTable(v) ==
    /\ Len(v.Source) > 0
    /\ \/ /\ v.VolumeType = KataVirtualVolumeDirectBlockType
          /\ Len(v.DirectVolume) = 1
          /\ ~v.DirectVolume[1].Metadata.isNil
       \/ /\ v.VolumeType \in RawBlockTypes
          /\ Len(v.DmVerity) = 1 => FirstViolatedRule(v.DmVerity[1]) = Nil
       \/ /\ v.VolumeType \in NydusTypes
          /\ Len(v.NydusImage) = 1
          /\ v.NydusImage[1].Config # << >> \/ v.NydusImage[1].SnapshotDir # << >>
       \/ /\ v.VolumeType = KataVirtualVolumeImageGuestPullType
          /\ Len(v.ImagePull) = 1
          /\ ~v.ImagePull[1].Metadata.isNil

\* C1: IsValid returns true exactly when the row of the validation table
\* for the volume type holds; every other volume type is invalid.
C1_ValidationTable ==
    kres.done => (kres.ok <=> ValidationTable(volume))

\* An image_guest_pull descriptor with a source and an empty, non-nil
\* metadata map is accepted.
C1_Witness ==
    /\ kres.done /\ kres.ok
    /\ volume.VolumeType = KataVirtualVolumeImageGuestPullType
    /\ volume.ImagePull = Ptr([Metadata |-> Map(<< >>)])

\* The payloads a descriptor carries are those its volume type selects.
UnionDiscipline(v) ==
    /\ v.DirectVolume # NilPtr => v.VolumeType = KataVirtualVolumeDirectBlockType
    /\ v.ImagePull # NilPtr => v.VolumeType = KataVirtualVolumeImageGuestPullType
    /\ v.NydusImage # NilPtr => v.VolumeType \in NydusTypes
    /\ v.DmVerity # NilPtr => v.VolumeType \in RawBlockTypes

\* C4, as claimed: a descriptor IsValid accepts carries no payload but the
\* one of its volume type, and a DmVerity only on a raw block type.
C4_UnionDiscipline ==
    kres.done /\ kres.ok => UnionDiscipline(volume)

\* The descriptor without the payloads its volume type does not select.
SelectedOnly(v) ==
    [v EXCEPT
       !.DirectVolume = IF v.VolumeType = KataVirtualVolumeDirectBlockType
                        THEN @ ELSE NilPtr,
       !.ImagePull = IF v.VolumeType = KataVirtualVolumeImageGuestPullType
                     THEN @ ELSE NilPtr,
       !.NydusImage = IF v.VolumeType \in NydusTypes THEN @ ELSE NilPtr,
       !.DmVerity = IF v.VolumeType \in RawBlockTypes THEN @ ELSE NilPtr]

\* C4, amended: a descriptor IsValid accepts carries the payload its volume
\* type selects, and IsValid reads no other payload: it accepts a descriptor
\* exactly when the table accepts it with the other payloads taken away.
C4_SelectedPayloadDecides ==
    kres.done =>
        /\ kres.ok =>
              /\ volume.VolumeType = KataVirtualVolumeDirectBlockType
                    => volume.DirectVolume # NilPtr
              /\ volume.VolumeType = KataVirtualVolumeImageGuestPullType
                    => volume.ImagePull # NilPtr
              /\ volume.VolumeType \in NydusTypes => volume.NydusImage # NilPtr
        /\ kres.ok <=> ValidationTable(SelectedOnly(volume))

\* A direct_block descriptor that also carries a NydusImage, an ImagePull
\* and a DmVerity that fails DmVerityInfo.IsValid is accepted.
C4_Witness ==
    /\ kres.done /\ kres.ok
    /\ volume.VolumeType = KataVirtualVolumeDirectBlockType
    /\ volume.NydusImage # NilPtr
    /\ volume.ImagePull # NilPtr
    /\ volume.DmVerity = Ptr(BadVerity)

-----------------------------------------------------------------------------
(* The codec: round trip, stages, validity                                 *)

\* What the round trip does to a string: every byte that is not part of a
\* valid UTF-8 encoding becomes U+FFFD, the rest stays.
CoerceStep(st, s, i) ==
    IF st.skip > 0 THEN [st EXCEPT !.skip = st.skip - 1]
    ELSE IF RuneSize(s, i) = 0 THEN [st EXCEPT !.out = st.out \o <<239, 191, 189>>]
    ELSE [out |-> st.out \o SubSeq(s, i, i + RuneSize(s, i) - 1),
          skip |-> RuneSize(s, i) - 1]

RECURSIVE CoerceFold(_, _, _, _)
CoerceFold(s, lo, hi, st) ==
    IF st.skip < 0 \/ lo > hi THEN st
    ELSE IF lo = hi THEN CoerceStep(st, s, lo)
    ELSE CoerceFold(s, ((lo + hi) \div 2) + 1, hi, CoerceFold(s, lo, (lo + hi) \div 2, st))

CoerceUTF8(s) ==
    IF \A i \in 1..Len(s) : s[i] < 128 THEN s
    ELSE CoerceFold(s, 1, Len(s), [out |-> << >>, skip |-> 0]).out

RECURSIVE CoercePairs(_, _, _)
\* The pairs of a map with keys and values coerced; of keys that coincide the
\* one that was greatest keeps its value.
CoercePairs(pairs, i, acc) ==
    IF i > Len(pairs) THEN acc
    ELSE CoercePairs(pairs, i + 1,
                     MapSet(acc, CoerceUTF8(pairs[i][1]), CoerceUTF8(pairs[i][2])))

CoerceMetadata(p) ==
    IF p = NilPtr \/ p[1].Metadata.isNil THEN p
    ELSE Ptr([Metadata |-> Map(CoercePairs(p[1].Metadata.pairs, 1, << >>))])

\* An empty options list is not a set field: it reads back as nil.
UnsetEmpty(k) ==
    [k EXCEPT !.Options = IF Len(@.elems) = 0 THEN NilSlice ELSE @]

Coerce(k) ==
    [VolumeType |-> CoerceUTF8(k.VolumeType),
     Source |-> CoerceUTF8(k.Source),
     FSType |-> CoerceUTF8(k.FSType),
     Options |-> IF Len(k.Options.elems) = 0 THEN NilSlice
                 ELSE Slice([i \in 1..Len(k.Options.elems) |->
                               CoerceUTF8(k.Options.elems[i])]),
     DirectVolume |-> CoerceMetadata(k.DirectVolume),
     ImagePull |-> CoerceMetadata(k.ImagePull),
     NydusImage |-> IF k.NydusImage = NilPtr THEN NilPtr
                    ELSE Ptr([Config |-> CoerceUTF8(k.NydusImage[1].Config),
                              SnapshotDir |-> CoerceUTF8(k.NydusImage[1].SnapshotDir)]),
     DmVerity |-> IF k.DmVerity = NilPtr THEN NilPtr
                  ELSE Ptr([k.DmVerity[1] EXCEPT !.HashType = CoerceUTF8(@),
                                                 !.Hash = CoerceUTF8(@)])]

\* The parser was given what the producer's encoder returned, and is done.
RoundTripDone == cpc = "done" /\ option = wire

\* C3, as claimed: for every valid descriptor v, parsing the encoding of v
\* succeeds and returns a valid descriptor equal to v on every set field.
C3_RoundTripPreservesSetFields ==
    (RoundTripDone /\ KataVirtualVolumeIsValid(cvol)) =>
        /\ result.err = Nil
        /\ result.vol # NilPtr
        /\ KataVirtualVolumeIsValid(result.vol[1])
        /\ result.vol[1] = UnsetEmpty(cvol)

\* C3, amended: for every valid descriptor v, parsing the encoding of v
\* succeeds and returns a valid descriptor that equals v on every set field
\* after every string of v, and every key and value of its metadata maps,
\* has had the bytes that are not valid UTF-8 replaced by U+FFFD.
C3_RoundTripUpToUTF8 ==
    (RoundTripDone /\ KataVirtualVolumeIsValid(cvol)) =>
        /\ result.err = Nil
        /\ result.vol # NilPtr
        /\ KataVirtualVolumeIsValid(result.vol[1])
        /\ result.vol[1] = Coerce(cvol)

\* A valid descriptor with a verity descriptor, options and a string that is
\* not UTF-8 has made the round trip.
C3_Witness ==
    /\ RoundTripDone
    /\ KataVirtualVolumeIsValid(cvol)
    /\ result.vol # NilPtr
    /\ \/ cvol.DmVerity # NilPtr /\ cvol.VolumeType = KataVirtualVolumeImageRawBlockType
       \/ cvol.Source = <<255>>

\* The characters of base64 text: the alphabet, the padding, the newlines.
IsBase64Text(s) ==
    \A i \in 1..Len(s) :
        s[i] \in (65..90) \cup (97..122) \cup (48..57) \cup {43, 47, 61, 10, 13}

\* C5: parsing is staged and fail-closed.  A string that is not base64 gives
\* the base64 stage's error, and neither json.Unmarshal nor IsValid has run;
\* base64 of what is not JSON for the schema gives the JSON stage's error;
\* JSON whose descriptor is not valid gives the validation error; a failure
\* returns a nil descriptor, and a descriptor returned is valid.
C5_StagedFailClosed ==
    cpc = "done" =>
        LET d == B64DecodeString(option)
            u == UnmarshalKataVirtualVolume(d.bytes)
        IN  /\ ~IsBase64Text(option) => d.err
            /\ d.err => /\ result = [vol |-> NilPtr, err |-> ErrBase64Decoding]
                        /\ opt = << >>
                        /\ no = ZeroKataVirtualVolume
            /\ (~d.err /\ u.err) =>
                   result = [vol |-> NilPtr, err |-> ErrJSONUnmarshal]
            /\ (~d.err /\ ~u.err /\ ~KataVirtualVolumeIsValid(u.v)) =>
                   result = [vol |-> NilPtr, err |-> ErrNotCorrect]
            /\ result.err \in {Nil, ErrBase64Decoding, ErrJSONUnmarshal, ErrNotCorrect}
            /\ result.err # Nil => result.vol = NilPtr
            /\ result.vol # NilPtr =>
                   /\ result.err = Nil
                   /\ KataVirtualVolumeIsValid(result.vol[1])
                   /\ ~d.err /\ ~u.err /\ result.vol[1] = u.v

\* A string that is base64 of a text that is no JSON was refused at the JSON
\* stage.
C5_Witness ==
    /\ cpc = "done"
    /\ IsBase64Text(option)
    /\ opt # << >>
    /\ result = [vol |-> NilPtr, err |-> ErrJSONUnmarshal]

\* C9: the encoder returns base64 of the JSON of every descriptor, valid or
\* not, and parsing the encoding of a descriptor that is not valid fails
\* with the validation error.
C9_EncodeUnconditionalDecodeValidates ==
    /\ cpc # "encode" =>
          /\ EncodeKataVirtualVolumeToBase64(cvol).err = Nil
          /\ B64DecodeString(wire) =
                [err |-> FALSE, bytes |-> MarshalKataVirtualVolume(cvol)]
          /\ ~JParse(MarshalKataVirtualVolume(cvol)).err
    /\ (RoundTripDone /\ ~KataVirtualVolumeIsValid(cvol)) =>
          result = [vol |-> NilPtr, err |-> ErrNotCorrect]

\* A direct_block descriptor whose metadata map is nil was encoded, and its
\* encoding refused.
C9_Witness ==
    /\ RoundTripDone
    /\ cvol.VolumeType = KataVirtualVolumeDirectBlockType
    /\ cvol.DirectVolume # NilPtr
    /\ ~KataVirtualVolumeIsValid(cvol)
    /\ result.err = ErrNotCorrect

-----------------------------------------------------------------------------
(* The mount: its options, the file handle, the lookups                    *)

\* ^extraoption=[A-Za-z0-9+/=]+$
MatchesExtraOption(s) ==
    /\ Len(s) > Len(StrExtraOption)
    /\ SubSeq(s, 1, Len(StrExtraOption)) = StrExtraOption
    /\ \A i \in (Len(StrExtraOption) + 1)..Len(s) :
          s[i] \in (65..90) \cup (97..122) \cup (48..57) \cup {43, 47, 61}

MatchCount(options) ==
    Cardinality({i \in 1..Len(options) : MatchesExtraOption(options[i])})

\* The JSON object with exactly the members source, config, snapshotdir and
\* fs_version, of these values.
ExtraOptionObject(src, cfg, dir, ver) ==
    JValue("obj", << >>,
           <<[k |-> TagSource, v |-> JValue("str", src, << >>)],
             [k |-> TagConfig, v |-> JValue("str", cfg, << >>)],
             [k |-> TagSnapshotdir, v |-> JValue("str", dir, << >>)],
             [k |-> TagFsVersion, v |-> JValue("str", ver, << >>)]>>)

\* What base64-decoding then JSON-parsing the part of s after "extraoption="
\* gives.
DecodedExtraOption(s) ==
    LET d == B64DecodeString(SubSeq(s, Len(StrExtraOption) + 1, Len(s)))
    IN  IF d.err THEN [err |-> TRUE, val |-> JValue("null", << >>, << >>)]
        ELSE JParse(d.bytes)

MountSucceeded == mpc = "returned" /\ merr = Nil

\* One mount, of the fixed type and source, whose options are the caller's
\* followed by one entry that matches.
OneMountCallerOptionsFirst ==
    /\ ~mounts.isNil
    /\ Len(mounts.elems) = 1
    /\ mounts.elems[1].Type = StrFuseNydusOverlayfs
    /\ mounts.elems[1].Source = StrOverlay
    /\ Len(mounts.elems[1].Options) = Len(callOptions) + 1
    /\ SubSeq(mounts.elems[1].Options, 1, Len(callOptions)) = callOptions
    /\ MatchesExtraOption(mounts.elems[1].Options[Len(callOptions) + 1])

\* C6, as claimed: on success, for any caller-supplied options, one mount of
\* type fuse.nydus-overlayfs and source overlay is returned, its options are
\* the caller's in order and then extraoption=<base64>, exactly one option
\* matches ^extraoption=[A-Za-z0-9+/=]+$, and that entry decodes to exactly
\* source, config, snapshotdir and fs_version equal to the bootstrap path,
\* the serialized configuration, the snapshot directory and the version.
C6_ExactlyOneExtraOption ==
    MountSucceeded =>
        /\ OneMountCallerOptionsFirst
        /\ MatchCount(mounts.elems[1].Options) = 1
        /\ DecodedExtraOption(mounts.elems[1].Options[Len(callOptions) + 1]) =
              [err |-> FALSE,
               val |-> ExtraOptionObject(source, configContent, snapDir, version)]

\* C6, amended: on success, for any caller-supplied options, one mount of
\* type fuse.nydus-overlayfs and source overlay is returned, its options are
\* the caller's in order and then extraoption=<base64>; that last entry
\* matches the pattern, and it is the only one that does exactly when none of
\* the caller's options does; it decodes to exactly source, config,
\* snapshotdir and fs_version, equal to the bootstrap path, the serialized
\* configuration, the snapshot directory and the version once their bytes
\* that are not valid UTF-8 are replaced by U+FFFD.
C6_AppendedExtraOption ==
    MountSucceeded =>
        /\ OneMountCallerOptionsFirst
        /\ MatchCount(mounts.elems[1].Options) = 1 + MatchCount(callOptions)
        /\ DecodedExtraOption(mounts.elems[1].Options[Len(callOptions) + 1]) =
              [err |-> FALSE,
               val |-> ExtraOptionObject(CoerceUTF8(source), CoerceUTF8(configContent),
                                         CoerceUTF8(snapDir), CoerceUTF8(version))]
        /\ overlayOptions = mounts.elems[1].Options
        /\ logged = callOptions

\* A mount was returned to a caller that passed two options, for a v6
\* bootstrap.
C6_Witness ==
    /\ MountSucceeded
    /\ Len(callOptions) = 2
    /\ version = <<118, 54>>
    /\ Len(mounts.elems[1].Options) = 3

\* The function is over: it returned or it panicked.
MountOver == mpc \in {"returned", "panicked"}

\* C7: the file handle is never open after the function is over; it is read
\* only while open; when the function fails before the open (bootstrap path,
\* daemon, instance configuration, configuration serialization) or at it, no
\* handle was ever opened; when the file was opened (read failure, detection
\* failure, success) it has been closed once by the return.
C7_FileHandleScoped ==
    /\ \A i \in 1..Len(reads) : reads[i] = "open"
    /\ fileLog \in {<< >>, <<"open">>, <<"open", "close">>}
    /\ f = (IF fileLog = << >> THEN "none"
            ELSE IF fileLog = <<"open">> THEN "open" ELSE "closed")
    /\ (fileLog = << >>) => reads = << >>
    /\ MountOver =>
          /\ f # "open"
          /\ deferred = << >>
          /\ (mpc = "panicked" \/ merr \in {ErrBootstrapFile, ErrGetDaemon, ErrLoadConfig,
                                           ErrDumpConfig, ErrOpenBootstrap})
                => fileLog = << >>
          /\ (mpc = "returned" /\ merr \in {ErrReadBootstrap, ErrDetectVersion, Nil})
                => (fileLog = <<"open", "close">> /\ Len(reads) = 1)

\* The read of the opened bootstrap failed, and the function returned.
C7_Witness ==
    /\ mpc = "returned"
    /\ merr = ErrReadBootstrap
    /\ fileLog = <<"open", "close">>
    /\ f = "closed"

\* C8: when the cache has no instance for the id, or the daemon lookup
\* fails, the function returns the lookup's error and no mounts, and has
\* loaded no configuration, touched no file and looked up no other daemon.
C8_LookupFailureIsReturned ==
    (MountOver /\ \/ (instance = NilPtr /\ Len(calls) >= 2)
                  \/ (instance # NilPtr /\ daemon = NilPtr /\ Len(calls) >= 3)) =>
        /\ mpc = "returned"
        /\ merr = ErrGetDaemon
        /\ mounts = NilSlice
        /\ c = "none"
        /\ fileLog = << >>
        /\ \A i \in 1..Len(calls) :
              calls[i] \in {"BootstrapFile", "RafsGlobalCache.Get", "GetDaemonByID"}
        /\ Cardinality({i \in 1..Len(calls) : calls[i] = "GetDaemonByID"}) <= 1

====
